---- MODULE Spec2Model ----
(***************************************************************************)
(* A model of nullboot: the UEFI boot manager (efibootmgr/bootmgr.go), the *)
(* resealing pipeline (efibootmgr/reseal.go), the file copy helper         *)
(* (efibootmgr/fs.go) and the run of the command-line tool                 *)
(* (cmd/nullbootctl/main.go).                                              *)
(*                                                                         *)
(* These specifications share the variables:                               *)
(*   Spec    - a BootManager loaded from a variable store, then driven by  *)
(*             arbitrary FindOrCreateEntry / DeleteEntry /                 *)
(*             PrependAndSetBootOrder calls;                               *)
(*   SpecStore - the same, with Boot#### variables that another program   *)
(*             deletes from the store in between;                          *)
(*   SpecRun - nullbootctl's main(), step by step, from the file systems   *)
(*             and flags it may be started with, and invoked again after   *)
(*             a run has ended;                                            *)
(*   SpecImage  - one efiImageFile (reseal.go) over a file that may change *)
(*             on disk: ReadAt calls, then Close;                          *)
(*   SpecReseal - one ResealKey call with the services it invokes, in      *)
(*             the order it invokes them;                                  *)
(*   SpecAssets - one TrustedAssets: hashes become trusted, obsolete ones  *)
(*             are removed, the list is saved;                             *)
(*   SpecCopy - MaybeUpdateFile calls (fs.go) on a file system;            *)
(*   SpecCsv  - one WriteShimFallback call (shim.go);                      *)
(*   SpecKm   - a KernelManager and its BootManager: InstallKernels,       *)
(*             CommitToBootLoader and RemoveObsoleteKernels calls;         *)
(*   SpecLink - getPolicyAuthKeyFromKernel (reseal.go) over the links of   *)
(*             /dev/disk, one system call at a time;                       *)
(*   SpecOpen - the image files of one profile computation (reseal.go):    *)
(*             Open calls and Close calls on the files they return;        *)
(*   SpecLeaf - the leaf hashes efiImageFile computes of two files.        *)
(***************************************************************************)
EXTENDS Integers, Sequences, FiniteSets, TLC

VARIABLES
    efivars,        \* the UEFI variable store: name -> [data, attrs]
    loaded,         \* TRUE once NewBootManagerFromSystem has returned a BootManager
    entries,        \* BootManager.entries: boot number -> BootEntryVariable
    bootOrder,      \* BootManager.bootOrder
    bootOrderAttrs, \* BootManager.bootOrderAttrs
    last,           \* the last operation: its name, argument, failing service, result and error
    writes,         \* the SetVariable calls the last operation made that succeeded
    pre,            \* entries, bootOrder and store as the last operation found them
    deleted,        \* boot numbers a DeleteEntry has deleted so far
    revived,        \* deleted boot numbers that FindOrCreateEntry has created again since
    nOps,           \* number of BootManager calls made so far
    pc,             \* SpecRun: the step of main() that runs next ("idle" under Spec)
    flags,          \* SpecRun: the command line: noTPM, noEfivars, outputJSON
    exit,           \* SpecRun: exit status of the process (-1 while it runs) and the step that failed
    files,          \* SpecRun: the file system: path -> content
    assets,         \* SpecRun: the TrustedAssets of main(): loaded and newAssets, or nil
    km,             \* SpecRun: the KernelManager: sourceKernels and targetKernels
    fileWrites,     \* SpecRun: the files the last step created, truncated or removed
    log,            \* SpecRun: what the run did so far, in order
    reseals,        \* SpecRun: what each ResealKey call of the run did
    runs,           \* SpecRun: number of invocations of the tool so far
    image,          \* SpecImage: the efiImageFile, its file and its pcrProfileComputeContext
    call,           \* SpecReseal: the ResealKey call: its inputs and what it did
    ta,             \* SpecAssets: the TrustedAssets, the hashes on disk and the calls made
    lib             \* SpecCopy, SpecCsv: the inputs and the results of the function called

bmVars == <<efivars, loaded, entries, bootOrder, bootOrderAttrs, last, writes, pre, deleted, revived, nOps>>

runVars == <<pc, flags, exit, files, assets, km, fileWrites, log, reseals, runs>>

otherVars == <<image, call, ta, lib>>

vars == <<efivars, loaded, entries, bootOrder, bootOrderAttrs, last, writes, pre, deleted, revived, nOps,
          pc, flags, exit, files, assets, km, fileWrites, log, reseals, runs, image, call, ta, lib>>

-----------------------------------------------------------------------------
(* Bounds of the model *)

\* Number of boot numbers the model has; it stands for the 65535 of the source.
MaxBootNum == 3

\* Longest BootOrder the firmware starts with, and longest head passed to
\* PrependAndSetBootOrder.
MaxOrderLen == 2

\* Number of Boot#### variables the firmware starts with.
MaxInitVars == 2

\* Number of BootManager calls in one behaviour.
MaxOps == 3

-----------------------------------------------------------------------------
(* Constants of the program *)

\* bootmgr.go: maxBootEntries (65535 in the source, scaled to the model's index space)
maxBootEntries == MaxBootNum

\* efivars.LoadOptionActive
LoadOptionActive == 1

\* efi.AttributeNonVolatile | efi.AttributeBootserviceAccess | efi.AttributeRuntimeAccess
\* (1 | 2 | 4), the attributes FindOrCreateEntry gives to a new Boot#### variable
EntryAttributes == 7

\* Attributes of variables the tests give to foreign variables (bootmgr_test.go)
ForeignEntryAttrs == 42

ForeignOrderAttrs == 123

BootNums == 0 .. (maxBootEntries - 1)

-----------------------------------------------------------------------------
(* Variable names: fmt.Sprintf("Boot%04X", n) and its inverse fmt.Sscanf *)

HexDigits == <<"0", "1", "2", "3", "4", "5", "6", "7", "8", "9", "A", "B", "C", "D", "E", "F">>

BootVariableName(n) ==
    "Boot" \o HexDigits[((n \div 4096) % 16) + 1] \o HexDigits[((n \div 256) % 16) + 1]
           \o HexDigits[((n \div 16) % 16) + 1] \o HexDigits[(n % 16) + 1]

\* Sscanf(name, "Boot%04X", &n) with len(name) == 8: the set of numbers the name
\* parses to (empty when the name is no Boot#### name).
ParseBootVariableName(name) == {n \in BootNums : BootVariableName(n) = name}

-----------------------------------------------------------------------------
(* Little-endian 16-bit coding of BootOrder *)

RECURSIVE EncodeBootOrder(_)
EncodeBootOrder(order) ==
    IF order = <<>> THEN <<>>
    ELSE LET num == Head(order) % 65536
         IN  <<num % 256, num \div 256>> \o EncodeBootOrder(Tail(order))

DecodeBootOrder(bytes) ==
    [i \in 1 .. (Len(bytes) \div 2) |-> bytes[2 * i - 1] + 256 * bytes[2 * i]]

-----------------------------------------------------------------------------
(* Load options *)

\* The boot entries the callers ask for (shim.go: BootEntry)
BootEntries ==
    { [Filename |-> "shimx64.efi", Label |-> "Ubuntu with kernel 1.0-12", Options |-> "\\kernel.efi-1.0-12 root=magic", Description |-> "d12"],
      [Filename |-> "shimx64.efi", Label |-> "Ubuntu with kernel 1.0-1", Options |-> "", Description |-> "d1"] }

\* appEFIVars.NewDevicePath(path.Join(relativeTo, entry.Filename), BootAbbrevHD)
NewDevicePath(relativeTo, filename) == <<"HD", "File", relativeTo \o "/" \o filename>>

\* efivars.NewLoadOptionArgumentFromUTF8: UCS-2 with a trailing NUL, nil for ""
NewLoadOptionArgumentFromUTF8(options) == IF options = "" THEN <<>> ELSE <<options, 0>>

\* efivars.NewLoadOption (efi_loadopt_create): attributes, length of the device
\* path list, description, device path list, optional data
NewLoadOption(attributes, dp, desc, optionalData) == <<attributes, Len(dp), desc, dp, optionalData>>

\* efi_loadopt_is_valid
IsValidLoadOption(data) == Len(data) = 5 /\ data[2] = Len(data[4])

\* efivars.NewLoadOptionFromVariable: LoadOption{variable}, or LoadOption{} and an error
NewLoadOptionFromVariable(variable) ==
    IF IsValidLoadOption(variable) THEN [Data |-> variable, err |-> FALSE]
    ELSE [Data |-> <<>>, err |-> TRUE]

\* A payload of the firmware that is no valid load option
InvalidLoadOption == <<1, 7, "garbage", <<"x">>, <<>>>>

TargetDir == "/boot/efi/EFI/ubuntu"

LoadOptionOf(entry) ==
    NewLoadOption(LoadOptionActive, NewDevicePath(TargetDir, entry.Filename), entry.Label,
                  NewLoadOptionArgumentFromUTF8(entry.Options))

-----------------------------------------------------------------------------
(* The variable store (MockEFIVariables, and the firmware behind RealEFIVariables) *)

\* EFIVariables.SetVariable: an empty payload deletes the variable
SetVariable(ev, name, data, attrs) ==
    IF Len(data) = 0
    THEN [n \in DOMAIN ev \ {name} |-> ev[n]]
    ELSE [n \in DOMAIN ev \cup {name} |-> IF n = name THEN [data |-> data, attrs |-> attrs] ELSE ev[n]]

\* One recorded SetVariable call
WriteOf(name, data, attrs) == [name |-> name, data |-> data, attrs |-> attrs]

-----------------------------------------------------------------------------
(* BootManager: pure parts *)

\* Mutant of LoadEntries: a variable whose payload is no valid load option is skipped
LoadEntries_SkipInvalid(ev) ==
    [n \in {m \in BootNums : /\ BootVariableName(m) \in DOMAIN ev
                             /\ IsValidLoadOption(ev[BootVariableName(m)].data)} |->
        [BootNumber |-> n,
         Data       |-> ev[BootVariableName(n)].data,
         Attributes |-> ev[BootVariableName(n)].attrs,
         LoadOption |-> ev[BootVariableName(n)].data]]

\* NewBootManagerFromSystem, the loop over the variable names: every name that
\* parses as Boot#### is read and recorded, with its load option when it is valid.
LoadEntries(ev) ==
    [n \in {m \in BootNums : BootVariableName(m) \in DOMAIN ev} |->
        [BootNumber |-> n,
         Data       |-> ev[BootVariableName(n)].data,
         Attributes |-> ev[BootVariableName(n)].attrs,
         LoadOption |-> NewLoadOptionFromVariable(ev[BootVariableName(n)].data).Data]]

\* Mutant of NextFreeEntry: the number of entries is taken as the next free number
NextFreeEntry_Count(ents) ==
    IF Cardinality(DOMAIN ents) < maxBootEntries THEN Cardinality(DOMAIN ents) ELSE -1

\* BootManager.NextFreeEntry: the first i in 0..maxBootEntries-1 not in entries, else -1
NextFreeEntry(ents) ==
    IF \E i \in 0 .. (maxBootEntries - 1) : i \notin DOMAIN ents
    THEN CHOOSE i \in 0 .. (maxBootEntries - 1) :
            /\ i \notin DOMAIN ents
            /\ \A j \in 0 .. (i - 1) : j \in DOMAIN ents
    ELSE -1

\* FindOrCreateEntry, "Detect duplicates and ignore": the entries the loop can return
DuplicatesOf(ents, data, attrs) ==
    {n \in DOMAIN ents : ents[n].LoadOption = data /\ ents[n].Attributes = attrs}

\* DeleteEntry: the cached order without bootNum
RemoveFromOrder(order, bootNum) == SelectSeq(order, LAMBDA orderEntry : orderEntry # bootNum)

\* Mutant of CombineOrder: duplicates are kept
RECURSIVE CombineOrder_NoDedup(_, _, _)
CombineOrder_NoDedup(nums, newOrder, ents) ==
    IF nums = <<>> THEN newOrder
    ELSE CombineOrder_NoDedup(Tail(nums),
                              IF Head(nums) \in DOMAIN ents THEN Append(newOrder, Head(nums)) ELSE newOrder,
                              ents)

\* Mutant of CombineOrder: numbers without an entry are kept
RECURSIVE CombineOrder_KeepMissing(_, _, _)
CombineOrder_KeepMissing(nums, newOrder, ents) ==
    IF nums = <<>> THEN newOrder
    ELSE LET num == Head(nums)
             isDuplicate == \E i \in 1 .. Len(newOrder) : newOrder[i] = num
         IN  CombineOrder_KeepMissing(Tail(nums),
                                      IF ~isDuplicate THEN Append(newOrder, num) ELSE newOrder,
                                      ents)

\* PrependAndSetBootOrder: the loop that combines head with the existing order and
\* filters out duplicates and non-existing entries
RECURSIVE CombineOrder(_, _, _)
CombineOrder(nums, newOrder, ents) ==
    IF nums = <<>> THEN newOrder
    ELSE LET num == Head(nums)
             isDuplicate == \E i \in 1 .. Len(newOrder) : newOrder[i] = num
         IN  CombineOrder(Tail(nums),
                          IF num \in DOMAIN ents /\ ~isDuplicate THEN Append(newOrder, num) ELSE newOrder,
                          ents)

-----------------------------------------------------------------------------
(* BootManager: the operations, as functions of the BootManager and the store. *)
(* Each returns the new entries / bootOrder / store, the returned number (ret), *)
(* the error flag and the SetVariable calls that took effect.                  *)

Outcome(ents, order, ev, ret, err, ws) ==
    [entries |-> ents, bootOrder |-> order, efivars |-> ev, ret |-> ret, err |-> err, writes |-> ws]

\* Mutant of FindOrCreateEntryOp: the entry is recorded in the map before the
\* variable is written, and stays there when the write fails
FindOrCreateEntryOp_RecordsBeforeWrite(ents, order, ev, entry, relativeTo, fail, pick) ==
    LET bootNext   == NextFreeEntry(ents)
        variable   == BootVariableName(bootNext)
        dp         == NewDevicePath(relativeTo, entry.Filename)
        optional   == NewLoadOptionArgumentFromUTF8(entry.Options)
        loadoption == NewLoadOptionFromVariable(NewLoadOption(LoadOptionActive, dp, entry.Label, optional))
        entryVar   == [BootNumber |-> bootNext, Data |-> loadoption.Data,
                       Attributes |-> EntryAttributes, LoadOption |-> loadoption.Data]
        dups       == DuplicatesOf(ents, loadoption.Data, entryVar.Attributes)
        recorded   == [n \in DOMAIN ents \cup {bootNext} |-> IF n = bootNext THEN entryVar ELSE ents[n]]
    IN  IF bootNext = -1 THEN Outcome(ents, order, ev, -1, TRUE, <<>>)
        ELSE IF fail = "dp" \/ loadoption.err THEN Outcome(ents, order, ev, -1, TRUE, <<>>)
        ELSE IF dups # {} THEN Outcome(ents, order, ev, ents[pick].BootNumber, FALSE, <<>>)
        ELSE IF fail = "set" THEN Outcome(recorded, order, ev, -1, TRUE, <<>>)
        ELSE Outcome(recorded,
                     order,
                     SetVariable(ev, variable, entryVar.Data, entryVar.Attributes),
                     bootNext, FALSE,
                     <<WriteOf(variable, entryVar.Data, entryVar.Attributes)>>)

\* BootManager.FindOrCreateEntry.  fail names the service that fails in this call
\* ("none", "dp": NewDevicePath, "set": SetVariable); pick is the entry Go's map
\* iteration meets first among the duplicates.
FindOrCreateEntryOp(ents, order, ev, entry, relativeTo, fail, pick) ==
    LET bootNext   == NextFreeEntry(ents)
        variable   == BootVariableName(bootNext)
        dp         == NewDevicePath(relativeTo, entry.Filename)
        optional   == NewLoadOptionArgumentFromUTF8(entry.Options)
        loadoption == NewLoadOptionFromVariable(NewLoadOption(LoadOptionActive, dp, entry.Label, optional))
        entryVar   == [BootNumber |-> bootNext, Data |-> loadoption.Data,
                       Attributes |-> EntryAttributes, LoadOption |-> loadoption.Data]
        dups       == DuplicatesOf(ents, loadoption.Data, entryVar.Attributes)
    IN  IF bootNext = -1 THEN Outcome(ents, order, ev, -1, TRUE, <<>>)
        ELSE IF fail = "dp" \/ loadoption.err THEN Outcome(ents, order, ev, -1, TRUE, <<>>)
        ELSE IF dups # {} THEN Outcome(ents, order, ev, ents[pick].BootNumber, FALSE, <<>>)
        ELSE IF fail = "set" THEN Outcome(ents, order, ev, -1, TRUE, <<>>)
        ELSE Outcome([n \in DOMAIN ents \cup {bootNext} |-> IF n = bootNext THEN entryVar ELSE ents[n]],
                     order,
                     SetVariable(ev, variable, entryVar.Data, entryVar.Attributes),
                     bootNext, FALSE,
                     <<WriteOf(variable, entryVar.Data, entryVar.Attributes)>>)

\* The values pick may take in FindOrCreateEntryOp
PicksOf(ents, entry, relativeTo) ==
    LET dups == DuplicatesOf(ents,
                    NewLoadOption(LoadOptionActive, NewDevicePath(relativeTo, entry.Filename), entry.Label,
                                  NewLoadOptionArgumentFromUTF8(entry.Options)),
                    EntryAttributes)
    IN  IF dups = {} THEN {-1} ELSE dups

\* Mutant of DeleteEntryOp: the new order is written to the BootOrder variable at once
DeleteEntryOp_WritesOrder(ents, order, ev, bootNum, fail) ==
    LET variable == BootVariableName(bootNum)
        newOrder == RemoveFromOrder(order, bootNum)
        attrs    == IF "BootOrder" \in DOMAIN ev THEN ev["BootOrder"].attrs ELSE EntryAttributes
    IN  IF bootNum \notin DOMAIN ents THEN Outcome(ents, order, ev, -1, TRUE, <<>>)
        ELSE IF variable \notin DOMAIN ev \/ fail = "set" THEN Outcome(ents, order, ev, -1, TRUE, <<>>)
        ELSE Outcome([n \in DOMAIN ents \ {bootNum} |-> ents[n]],
                     newOrder,
                     SetVariable(SetVariable(ev, variable, <<>>, ev[variable].attrs),
                                 "BootOrder", EncodeBootOrder(newOrder), attrs),
                     0, FALSE,
                     <<WriteOf(variable, <<>>, ev[variable].attrs),
                       WriteOf("BootOrder", EncodeBootOrder(newOrder), attrs)>>)

\* Mutant of DeleteEntryOp: a variable that is no longer in the store counts as deleted
DeleteEntryOp_IgnoresMissing(ents, order, ev, bootNum, fail) ==
    LET variable == BootVariableName(bootNum)
    IN  IF bootNum \notin DOMAIN ents THEN Outcome(ents, order, ev, -1, TRUE, <<>>)
        ELSE IF fail = "set" THEN Outcome(ents, order, ev, -1, TRUE, <<>>)
        ELSE IF variable \notin DOMAIN ev
        THEN Outcome([n \in DOMAIN ents \ {bootNum} |-> ents[n]], RemoveFromOrder(order, bootNum), ev,
                     0, FALSE, <<>>)
        ELSE Outcome([n \in DOMAIN ents \ {bootNum} |-> ents[n]],
                     RemoveFromOrder(order, bootNum),
                     SetVariable(ev, variable, <<>>, ev[variable].attrs),
                     0, FALSE,
                     <<WriteOf(variable, <<>>, ev[variable].attrs)>>)

\* Mutant of DeleteEntryOp: the cached boot order keeps the deleted number
DeleteEntryOp_KeepsOrder(ents, order, ev, bootNum, fail) ==
    LET variable == BootVariableName(bootNum)
    IN  IF bootNum \notin DOMAIN ents THEN Outcome(ents, order, ev, -1, TRUE, <<>>)
        ELSE IF variable \notin DOMAIN ev \/ fail = "set" THEN Outcome(ents, order, ev, -1, TRUE, <<>>)
        ELSE Outcome([n \in DOMAIN ents \ {bootNum} |-> ents[n]],
                     order,
                     SetVariable(ev, variable, <<>>, ev[variable].attrs),
                     0, FALSE,
                     <<WriteOf(variable, <<>>, ev[variable].attrs)>>)

\* Mutant of DeleteEntryOp: the entry stays in the in-memory map
DeleteEntryOp_KeepsEntry(ents, order, ev, bootNum, fail) ==
    LET variable == BootVariableName(bootNum)
    IN  IF bootNum \notin DOMAIN ents THEN Outcome(ents, order, ev, -1, TRUE, <<>>)
        ELSE IF variable \notin DOMAIN ev \/ fail = "set" THEN Outcome(ents, order, ev, -1, TRUE, <<>>)
        ELSE Outcome(ents,
                     RemoveFromOrder(order, bootNum),
                     SetVariable(ev, variable, <<>>, ev[variable].attrs),
                     0, FALSE,
                     <<WriteOf(variable, <<>>, ev[variable].attrs)>>)

\* BootManager.DeleteEntry, with DelVariable: GetVariable, then SetVariable with a nil
\* payload and the attributes read
DeleteEntryOp(ents, order, ev, bootNum, fail) ==
    LET variable == BootVariableName(bootNum)
    IN  IF bootNum \notin DOMAIN ents THEN Outcome(ents, order, ev, -1, TRUE, <<>>)
        ELSE IF variable \notin DOMAIN ev \/ fail = "set" THEN Outcome(ents, order, ev, -1, TRUE, <<>>)
        ELSE Outcome([n \in DOMAIN ents \ {bootNum} |-> ents[n]],
                     RemoveFromOrder(order, bootNum),
                     SetVariable(ev, variable, <<>>, ev[variable].attrs),
                     0, FALSE,
                     <<WriteOf(variable, <<>>, ev[variable].attrs)>>)

\* BootManager.PrependAndSetBootOrder
PrependAndSetBootOrderOp(ents, order, orderAttrs, ev, head, fail) ==
    LET newOrder == CombineOrder(head \o order, <<>>, ents)
        output   == EncodeBootOrder(newOrder)
    IN  IF fail = "set" THEN Outcome(ents, order, ev, -1, TRUE, <<>>)
        ELSE Outcome(ents, newOrder, SetVariable(ev, "BootOrder", output, orderAttrs), 0, FALSE,
                     <<WriteOf("BootOrder", output, orderAttrs)>>)

-----------------------------------------------------------------------------
(* Specification Spec: a BootManager over a variable store *)

\* All sequences over S of length at most n
RECURSIVE SeqsUpTo(_, _)
SeqsUpTo(S, n) ==
    IF n = 0 THEN {<<>>}
    ELSE LET shorter == SeqsUpTo(S, n - 1)
         IN  shorter \cup {Append(q, x) : q \in {r \in shorter : Len(r) = n - 1}, x \in S}

\* What a Boot#### variable of the firmware may hold before the tool runs: an invalid
\* payload, an entry as this tool writes it, and a foreign entry with the same bytes
\* but other attributes
InitBootVariables ==
    { [data |-> InvalidLoadOption, attrs |-> EntryAttributes],
      [data |-> LoadOptionOf(CHOOSE e \in BootEntries : e.Options = ""), attrs |-> EntryAttributes],
      [data |-> LoadOptionOf(CHOOSE e \in BootEntries : e.Options = ""), attrs |-> ForeignEntryAttrs] }

\* A variable that is no Boot#### variable
OtherVariables == [n \in {"Timeout"} |-> [data |-> <<5, 0>>, attrs |-> EntryAttributes]]

\* The variable stores the model starts from: at most MaxInitVars Boot#### variables,
\* and a BootOrder of at most MaxOrderLen numbers (which need not exist), or none.
InitStores ==
    LET boots   == UNION {[B -> InitBootVariables] : B \in {X \in SUBSET BootNums : Cardinality(X) <= MaxInitVars}}
        orders  == SeqsUpTo(BootNums, MaxOrderLen)
        withOrder(f, o) ==
            [n \in {BootVariableName(b) : b \in DOMAIN f} \cup {"BootOrder"} \cup DOMAIN OtherVariables |->
                IF n = "BootOrder" THEN [data |-> EncodeBootOrder(o), attrs |-> ForeignOrderAttrs]
                ELSE IF n \in DOMAIN OtherVariables THEN OtherVariables[n]
                ELSE f[CHOOSE b \in DOMAIN f : BootVariableName(b) = n]]
        withoutOrder(f) ==
            [n \in {BootVariableName(b) : b \in DOMAIN f} \cup DOMAIN OtherVariables |->
                IF n \in DOMAIN OtherVariables THEN OtherVariables[n]
                ELSE f[CHOOSE b \in DOMAIN f : BootVariableName(b) = n]]
    IN  {withOrder(f, o) : f \in boots, o \in orders} \cup {withoutOrder(f) : f \in boots}

\* The heads passed to PrependAndSetBootOrder
Heads == SeqsUpTo(BootNums, MaxOrderLen)

\* main(): var assets *efibootmgr.TrustedAssets, nil until ReadTrustedAssets
NoAssets == [present |-> FALSE, loaded |-> <<>>, newAssets |-> <<>>]

NoOp == [op |-> "none", arg |-> <<>>, fail |-> "none", ret |-> 0, err |-> FALSE]

NoPre == [entries |-> <<>>, bootOrder |-> <<>>, efivars |-> <<>>]

Init ==
    /\ efivars \in InitStores
    /\ loaded = FALSE
    /\ entries = <<>>
    /\ bootOrder = <<>>
    /\ bootOrderAttrs = 0
    /\ last = NoOp
    /\ writes = <<>>
    /\ pre = NoPre
    /\ deleted = {}
    /\ revived = {}
    /\ nOps = 0
    /\ pc = "idle"
    /\ flags = [noTPM |-> TRUE, noEfivars |-> FALSE, outputJSON |-> FALSE]
    /\ exit = [code |-> -1, step |-> ""]
    /\ files = <<>>
    /\ assets = NoAssets
    /\ km = [sourceKernels |-> <<>>, targetKernels |-> <<>>]
    /\ fileWrites = <<>>
    /\ log = <<>>
    /\ reseals = <<>>
    /\ runs = 0
    /\ image = <<>>
    /\ call = <<>>
    /\ ta = <<>>
    /\ lib = <<>>

\* NewBootManagerFromSystem
NewBootManagerFromSystem ==
    /\ pc = "idle"
    /\ ~loaded
    /\ last.op = "none"
    /\ \E supported \in BOOLEAN :
         LET ok == supported /\ "BootOrder" \in DOMAIN efivars
         IN  /\ loaded' = ok
             /\ entries' = IF ok THEN LoadEntries(efivars) ELSE <<>>
             /\ bootOrder' = IF ok THEN DecodeBootOrder(efivars["BootOrder"].data) ELSE <<>>
             /\ bootOrderAttrs' = IF ok THEN efivars["BootOrder"].attrs ELSE 0
             /\ last' = [op |-> "NewBootManagerFromSystem", arg |-> supported, fail |-> "none", ret |-> 0, err |-> ~ok]
    /\ writes' = <<>>
    /\ pre' = [entries |-> entries, bootOrder |-> bootOrder, efivars |-> efivars]
    /\ UNCHANGED <<efivars, deleted, revived, nOps>>
    /\ UNCHANGED <<runVars, otherVars>>

\* The effect of one BootManager call with outcome r
Apply(op, arg, fail, r) ==
    /\ entries' = r.entries
    /\ bootOrder' = r.bootOrder
    /\ efivars' = r.efivars
    /\ writes' = r.writes
    /\ last' = [op |-> op, arg |-> arg, fail |-> fail, ret |-> r.ret, err |-> r.err]
    /\ pre' = [entries |-> entries, bootOrder |-> bootOrder, efivars |-> efivars]
    /\ nOps' = nOps + 1
    /\ UNCHANGED <<loaded, bootOrderAttrs>>
    /\ UNCHANGED <<runVars, otherVars>>

FindOrCreateEntry ==
    /\ pc = "idle" /\ loaded /\ nOps < MaxOps
    /\ \E entry \in BootEntries, fail \in {"none", "dp", "set"} :
         \E pick \in PicksOf(entries, entry, TargetDir) :
            LET r == FindOrCreateEntryOp(entries, bootOrder, efivars, entry, TargetDir, fail, pick)
            IN  /\ Apply("FindOrCreateEntry", entry, fail, r)
                /\ deleted' = deleted
                /\ revived' = revived \cup ((DOMAIN r.entries \ DOMAIN entries) \cap deleted)

DeleteEntry ==
    /\ pc = "idle" /\ loaded /\ nOps < MaxOps
    /\ \E bootNum \in BootNums :
        \E fail \in (IF bootNum \in DOMAIN entries THEN {"none", "set"} ELSE {"none"}) :
         LET r == DeleteEntryOp(entries, bootOrder, efivars, bootNum, fail)
         IN  /\ Apply("DeleteEntry", bootNum, fail, r)
             /\ deleted' = IF r.err THEN deleted ELSE deleted \cup {bootNum}
             /\ revived' = IF r.err THEN revived ELSE revived \ {bootNum}

PrependAndSetBootOrder ==
    /\ pc = "idle" /\ loaded /\ nOps < MaxOps
    /\ \E head \in Heads, fail \in {"none", "set"} :
         LET r == PrependAndSetBootOrderOp(entries, bootOrder, bootOrderAttrs, efivars, head, fail)
         IN  /\ Apply("PrependAndSetBootOrder", head, fail, r)
             /\ UNCHANGED <<deleted, revived>>

Next ==
    \/ NewBootManagerFromSystem
    \/ FindOrCreateEntry
    \/ DeleteEntry
    \/ PrependAndSetBootOrder

Spec == Init /\ [][Next]_vars

-----------------------------------------------------------------------------
(* SpecStore: the BootManager of Spec over a store that another program changes *)

\* A Boot#### variable is deleted behind the BootManager (bootmgr_test.go:
\* delete(mockvars.store, ...)); the BootManager keeps what it has read
VariableVanishes ==
    /\ pc = "idle" /\ loaded /\ nOps < MaxOps
    /\ \E n \in BootNums :
         /\ BootVariableName(n) \in DOMAIN efivars
         /\ efivars' = [v \in DOMAIN efivars \ {BootVariableName(n)} |-> efivars[v]]
         /\ last' = [op |-> "delete(store)", arg |-> n, fail |-> "none", ret |-> 0, err |-> FALSE]
    /\ pre' = [entries |-> entries, bootOrder |-> bootOrder, efivars |-> efivars]
    /\ writes' = <<>>
    /\ nOps' = nOps + 1
    /\ UNCHANGED <<loaded, entries, bootOrder, bootOrderAttrs, deleted, revived>>
    /\ UNCHANGED <<runVars, otherVars>>

NextStore ==
    \/ NewBootManagerFromSystem
    \/ FindOrCreateEntry
    \/ DeleteEntry
    \/ PrependAndSetBootOrder
    \/ VariableVanishes

SpecStore == Init /\ [][NextStore]_vars

-----------------------------------------------------------------------------
(* The file system of a run of nullbootctl: paths, images, MaybeUpdateFile *)

\* F applied to the value of v, which is computed once
With(v, F(_)) == CHOOSE y \in {F(x) : x \in {v}} : TRUE

Elems(s) == {s[i] : i \in 1 .. Len(s)}

\* filepath.Join(dir, name)
Join(dir, name) == dir \o "/" \o name

\* main(): esp, shimSourceDir, kernelSourceDir
Esp == "/boot/efi"

ShimSourceDir == "/usr/lib/nullboot/shim"

KernelSourceDir == "/usr/lib/linux/efi"

RemovableDir == "/boot/efi/EFI/BOOT"

\* reseal.go: keyFilePath
keyFilePath == "device/fde/cloudimg-rootfs.sealed-key"

KeyPath == Join(Esp, keyFilePath)

trustedAssetsPath == "/var/lib/nullboot/assets.json"

\* ResealKey: the source shim and the shim of the ESP
ShimSourcePath == Join(ShimSourceDir, "shimx64.efi.signed")

EspShimPath == Join(TargetDir, "shimx64.efi")

RemovableShimPath == Join(RemovableDir, "BOOTX64.EFI")

CsvPath == Join(TargetDir, "BOOTX64.CSV")

\* The kernels of the model, with their Debian versions (upstream, revision)
KernelNames == {"kernel.efi-1.0-1-generic", "kernel.efi-1.0-12-generic"}

KernelVersion(name) ==
    IF name = "kernel.efi-1.0-1-generic" THEN <<1, 0, 1>> ELSE <<1, 0, 12>>

KernelLabel(name) ==
    IF name = "kernel.efi-1.0-1-generic" THEN "1.0-1-generic" ELSE "1.0-12-generic"

\* Debian version comparison of two kernels: a is newer than b
RECURSIVE NewerFrom(_, _, _)
NewerFrom(a, b, i) ==
    IF i > Len(a) THEN FALSE
    ELSE IF a[i] # b[i] THEN a[i] > b[i]
    ELSE NewerFrom(a, b, i + 1)

Newer(a, b) == NewerFrom(KernelVersion(a), KernelVersion(b), 1)

\* Mutant of SortDescending: oldest first
RECURSIVE SortDescending_Ascending(_)
SortDescending_Ascending(S) ==
    IF S = {} THEN <<>>
    ELSE LET oldest == CHOOSE k \in S : \A o \in S \ {k} : Newer(o, k)
         IN  <<oldest>> \o SortDescending_Ascending(S \ {oldest})

\* The kernels of S, newest first
RECURSIVE SortDescending(_)
SortDescending(S) ==
    IF S = {} THEN <<>>
    ELSE LET newest == CHOOSE k \in S : \A o \in S \ {k} : Newer(k, o)
         IN  <<newest>> \o SortDescending(S \ {newest})

\* The kernels a directory holds: ReadDir, filtered by the kernel.efi- prefix
ReadDirKernels(fs, dir) == {k \in KernelNames : Join(dir, k) \in DOMAIN fs}

\* File contents are sequences of blocks.  The images of the model:
ShimNew == <<11, 12>>

ShimOld == <<13, 14>>

KernelImage(name) == IF name = "kernel.efi-1.0-1-generic" THEN <<21, 22>> ELSE <<31, 32>>

KernelOldImage(name) == IF name = "kernel.efi-1.0-1-generic" THEN <<21, 23>> ELSE <<31, 33>>

\* sha256 of a content (collision free)
Sha256(content) == <<"sha256", content>>

\* fs with path holding content
WriteFile(fs, path, content) ==
    [p \in DOMAIN fs \cup {path} |-> IF p = path THEN content ELSE fs[p]]

\* fs without path
RemoveFile(fs, path) == [p \in DOMAIN fs \ {path} |-> fs[p]]

\* Mutant of needUpdateFile: a destination that exists is never updated
needUpdateFile_OnlyMissing(fs, dst, src) == dst \notin DOMAIN fs

\* needUpdateFile: dst is missing, or its sha256 differs from that of src
needUpdateFile(fs, dst, src) ==
    IF dst \notin DOMAIN fs THEN TRUE ELSE Sha256(fs[dst]) # Sha256(fs[src])

\* Mutant of MaybeUpdateFileOp: the destination is written even when it is equal
MaybeUpdateFileOp_AlwaysCopies(fs, dst, src, fail, cut) ==
    IF src \notin DOMAIN fs \/ fail = "open"
    THEN [files |-> fs, updated |-> FALSE, err |-> TRUE, wrote |-> <<>>]
    ELSE [files |-> WriteFile(fs, dst, fs[src]), updated |-> TRUE, err |-> FALSE, wrote |-> <<dst>>]

\* MaybeUpdateFile.  fail names the call that fails ("none", "open": Open of src or of
\* dst, "create": Create of dst, "copy": io.Copy, after cut blocks were written).
\* A failing copy leaves the destination created, truncated and partly written.
MaybeUpdateFileOp(fs, dst, src, fail, cut) ==
    IF src \notin DOMAIN fs \/ fail = "open"
    THEN [files |-> fs, updated |-> FALSE, err |-> TRUE, wrote |-> <<>>]
    ELSE IF ~needUpdateFile(fs, dst, src)
    THEN [files |-> fs, updated |-> FALSE, err |-> FALSE, wrote |-> <<>>]
    ELSE IF fail = "create"
    THEN [files |-> fs, updated |-> FALSE, err |-> TRUE, wrote |-> <<>>]
    ELSE IF fail = "copy"
    THEN [files |-> WriteFile(fs, dst, SubSeq(fs[src], 1, cut)), updated |-> FALSE, err |-> TRUE,
          wrote |-> <<dst>>]
    ELSE [files |-> WriteFile(fs, dst, fs[src]), updated |-> TRUE, err |-> FALSE, wrote |-> <<dst>>]

\* The ways a copy can fail: the failing call and the blocks written before it
CopyFailures == {<<"none", 0>>, <<"open", 0>>, <<"create", 0>>, <<"copy", 0>>, <<"copy", 1>>}

-----------------------------------------------------------------------------
(* TrustedAssets *)

\* Size of a block of the hash tree (4096 in the source, scaled)
BlockSize == 3

hashBlockSize == BlockSize

Min(a, b) == IF a < b THEN a ELSE b

\* var block [hashBlockSize]byte after n = Len(data) bytes were read into it
PadBlock(data) == data \o [i \in 1 .. hashBlockSize - Len(data) |-> 0]

\* h.Write(block[:]); h.Sum(nil): the hash of the whole, zero padded, block
LeafHash(data) == <<"sha256", PadBlock(data)>>

\* Number of blocks of a file of sz bytes
NumBlocks(sz) == (sz + (hashBlockSize - 1)) \div hashBlockSize

\* The bytes of block i (from 0) of a content; a short or empty one at its end
BlockOf(content, i) ==
    SubSeq(content, i * hashBlockSize + 1, Min((i + 1) * hashBlockSize, Len(content)))

\* The leaf hashes of a file read block by block from its start
LeafHashes(content) ==
    [k \in 1 .. NumBlocks(Len(content)) |-> LeafHash(BlockOf(content, k - 1))]

\* The root of a list of leaf hashes: the hash of their concatenation, to which a
\* leaf that was never computed (empty) adds nothing
FoldRoot(leafHashes) == <<"root", SelectSeq(leafHashes, LAMBDA d : d # <<>>)>>

\* The root of the hash tree of a content
RootHash(content) == FoldRoot(LeafHashes(content))

\* ReadTrustedAssets: the hashes of the file, none when the file is missing
ReadTrustedAssetsOp(fs) ==
    [present |-> TRUE,
     loaded |-> IF trustedAssetsPath \in DOMAIN fs THEN fs[trustedAssetsPath].hashes ELSE <<>>,
     newAssets |-> <<>>]

\* Mutant of TrustHash: the hash is appended to loaded even when it is there
TrustHash_Twice(a, h) ==
    [a EXCEPT !.loaded = Append(@, h), !.newAssets = Append(@, h)]

\* A root hash becomes trusted: appended to loaded unless it is there, and to newAssets
TrustHash(a, h) ==
    [a EXCEPT !.loaded = IF h \in Elems(@) THEN @ ELSE Append(@, h),
              !.newAssets = Append(@, h)]

\* The files at paths, in order, become trusted
RECURSIVE TrustFiles(_, _, _)
TrustFiles(a, fs, paths) ==
    IF paths = <<>> THEN a
    ELSE TrustFiles(TrustHash(a, RootHash(fs[Head(paths)])), fs, Tail(paths))

\* The images of a directory, in the order ReadDir lists them (by name)
DirImages(fs, dir) ==
    IF dir = ShimSourceDir
    THEN SelectSeq(<<ShimSourcePath>>, LAMBDA p : p \in DOMAIN fs)
    ELSE LET names == SelectSeq(<<"kernel.efi-1.0-1-generic", "kernel.efi-1.0-12-generic">>,
                                LAMBDA k : k \in ReadDirKernels(fs, dir))
         IN  [i \in 1 .. Len(names) |-> Join(dir, names[i])]

\* TrustedAssets.TrustNewFromDir
TrustNewFromDirOp(a, fs, dir) == TrustFiles(a, fs, DirImages(fs, dir))

\* Mutant of RemoveObsoleteOp: every hash is kept
RemoveObsoleteOp_KeepsAll(a) == a

\* TrustedAssets.RemoveObsolete: loaded keeps the hashes that are in newAssets
RemoveObsoleteOp(a) ==
    [a EXCEPT !.loaded = SelectSeq(@, LAMBDA h : h \in Elems(a.newAssets))]

\* Mutant of SaveOp: the file is left as it is
SaveOp_NoWrite(a, fs, fail) == fs

\* TrustedAssets.Save: the file is replaced atomically, or not at all
SaveOp(a, fs, fail) ==
    IF fail THEN fs ELSE WriteFile(fs, trustedAssetsPath, [alg |-> "sha256", hashes |-> a.loaded])

\* TrustedAssets.checkLeafHashes: the root of the leaves is one of loaded
checkLeafHashes(a, leafHashes) == FoldRoot(leafHashes) \in Elems(a.loaded)

-----------------------------------------------------------------------------
(* ResealKey *)

\* ResealKey: roots, the shims that exist
ResealRoots(fs) == SelectSeq(<<ShimSourcePath, EspShimPath>>, LAMBDA p : p \in DOMAIN fs)

\* Mutant of ResealKernels: the target kernels come first
ResealKernels_TargetFirst(kmgr) ==
    [i \in 1 .. Len(kmgr.targetKernels) |-> Join(TargetDir, kmgr.targetKernels[i])]
    \o [i \in 1 .. Len(kmgr.sourceKernels) |-> Join(KernelSourceDir, kmgr.sourceKernels[i])]

\* ResealKey: kernels, the source kernels then the target kernels of the KernelManager
ResealKernels(kmgr) ==
    [i \in 1 .. Len(kmgr.sourceKernels) |-> Join(KernelSourceDir, kmgr.sourceKernels[i])]
    \o [i \in 1 .. Len(kmgr.targetKernels) |-> Join(TargetDir, kmgr.targetKernels[i])]

\* The images one profile service opens, reads and closes: each root, then its Next
RECURSIVE LoadSequences(_, _)
LoadSequences(roots, kernels) ==
    IF roots = <<>> THEN <<>>
    ELSE <<Head(roots)>> \o kernels \o LoadSequences(Tail(roots), kernels)

\* Mutant of FailedPaths: Close trusts every image
FailedPaths_TrustsAll(a, fs, closed) == <<>>

\* efiImageFile.Close for each image closed: the paths whose root hash is not trusted
FailedPaths(a, fs, closed) ==
    SelectSeq(closed, LAMBDA p : ~checkLeafHashes(a, LeafHashes(fs[p])))

\* One call of a service, with what it is called for
Called(svc, arg) == [svc |-> svc, arg |-> arg]

LabelPath == "/dev/disk/by-label/cloudimg-rootfs-enc"

PartuuidDir == "/dev/disk/by-partuuid"

\* Mutant of WalkPartuuid: the walk goes on after a match and takes the last one
RECURSIVE WalkPartuuid_Last(_, _)
WalkPartuuid_Last(ents, devPath) ==
    IF ents = <<>> THEN [calls |-> <<>>, path |-> ""]
    ELSE With(WalkPartuuid_Last(Tail(ents), devPath), LAMBDA r :
            LET p == Join(PartuuidDir, Head(ents).name)
            IN  [calls |-> <<Called("resolveLink", p)>> \o r.calls,
                 path  |-> IF r.path # "" THEN r.path
                           ELSE IF Head(ents).target = devPath THEN p ELSE ""])

\* getPolicyAuthKeyFromKernel: the walk over the entries of /dev/disk/by-partuuid,
\* up to the first that resolves to devPath.  An entry that cannot be resolved
\* (target "") is passed over.
RECURSIVE WalkPartuuid(_, _)
WalkPartuuid(ents, devPath) ==
    IF ents = <<>> THEN [calls |-> <<>>, path |-> ""]
    ELSE LET p == Join(PartuuidDir, Head(ents).name)
         IN  IF Head(ents).target = devPath
             THEN [calls |-> <<Called("resolveLink", p)>>, path |-> p]
             ELSE With(WalkPartuuid(Tail(ents), devPath), LAMBDA r :
                     [calls |-> <<Called("resolveLink", p)>> \o r.calls, path |-> r.path])

\* getPolicyAuthKeyFromKernel.  env: label, the device the by-label link resolves
\* to ("" when it cannot be resolved); keyctl, whether the keyring can be linked;
\* first and retry, what the key service answers to the first and to the second
\* request; readable and partuuid, the entries of /dev/disk/by-partuuid
getPolicyAuthKeyFromKernelOp(env) ==
    LET c1 == <<Called("resolveLink", LabelPath)>>
        c2 == c1 \o <<Called("KeyctlLink", "user keyring into process keyring")>>
        c3 == c2 \o <<Called("GetAuxiliaryKeyFromKernel", env.label)>>
        c4 == c3 \o <<Called("ReadDir", PartuuidDir)>>
    IN  IF env.label = "" THEN [err |-> "cannot resolve device symlink", calls |-> c1]
        ELSE IF ~env.keyctl THEN [err |-> "cannot link user keyring", calls |-> c2]
        ELSE IF env.first = "found" THEN [err |-> "nil", calls |-> c3]
        ELSE IF env.first # "ErrKernelKeyNotFound" THEN [err |-> "cannot read key from kernel", calls |-> c3]
        ELSE IF ~env.readable THEN [err |-> "cannot read key from kernel", calls |-> c4]
        ELSE With(WalkPartuuid(env.partuuid, env.label), LAMBDA w :
                IF w.path = ""
                THEN [err |-> "cannot read key from kernel", calls |-> c4 \o w.calls]
                ELSE [err   |-> IF env.retry = "found" THEN "nil" ELSE "cannot read key from kernel",
                      calls |-> c4 \o w.calls \o <<Called("GetAuxiliaryKeyFromKernel", w.path)>>])

\* A kernel keyring that holds the key for the by-label device, and one without it
KeyFound ==
    [label |-> "/dev/sda1", keyctl |-> TRUE, first |-> "found", retry |-> "found",
     readable |-> TRUE, partuuid |-> <<>>]

KeyMissing == [KeyFound EXCEPT !.first = "ErrKernelKeyNotFound"]

\* ResealKey: each root with the kernels as its Next
LoadChains(roots, kernels) == [i \in 1 .. Len(roots) |-> [image |-> roots[i], next |-> kernels]]

\* The Open calls of a profile service
Opens(paths) == [i \in 1 .. Len(paths) |-> Called("Open", paths[i])]

\* The images of a pass that precede the first one that is missing
RECURSIVE UpToMissing(_, _)
UpToMissing(pass, fs) ==
    IF pass = <<>> \/ Head(pass) \notin DOMAIN fs THEN <<>>
    ELSE <<Head(pass)>> \o UpToMissing(Tail(pass), fs)

\* computePCRProtectionProfile: the boot manager (PCR 4) service, then the secure
\* boot policy (PCR 7) service, each opening, reading and closing every image of the
\* load chains.  fail: "profile" (the second service returns an error), "leak" (the
\* first service leaves the first image open), "leakprofile" (the first service
\* leaves the first image open and returns an error).
computePCRProtectionProfileOp(roots, kernels, fs, fail) ==
    LET pass    == LoadSequences(roots, kernels)
        chains  == LoadChains(roots, kernels)
        before  == UpToMissing(pass, fs)
        leaked  == IF fail \in {"leak", "leakprofile"} /\ roots # <<>> THEN <<roots[1]>> ELSE <<>>
        pcr4    == <<Called("AddBootManagerProfile", chains)>>
        pcr7    == <<Called("AddSecureBootPolicyProfile", chains)>>
    IN  IF fail = "leakprofile" /\ leaked # <<>>
        THEN [err |-> TRUE, closed |-> <<>>, opened |-> leaked, nOpen |-> 1,
              calls |-> pcr4 \o Opens(leaked)]
        ELSE IF before # pass
        THEN [err |-> TRUE, closed |-> before, opened |-> leaked \o before, nOpen |-> Len(leaked),
              calls |-> pcr4 \o Opens(leaked \o before) \o <<Called("Open", pass[Len(before) + 1])>>]
        ELSE IF fail = "profile"
        THEN [err |-> TRUE, closed |-> pass, opened |-> pass, nOpen |-> 0,
              calls |-> pcr4 \o Opens(pass) \o pcr7]
        ELSE [err |-> FALSE, closed |-> pass \o pass, opened |-> leaked \o pass \o pass,
              nOpen |-> Len(leaked),
              calls |-> pcr4 \o Opens(leaked \o pass) \o pcr7 \o Opens(pass)]

\* Mutant of CheckContext: the failed paths are looked at first
CheckContext_UntrustedFirst(nOpen, failedPaths) ==
    IF Len(failedPaths) > 0 THEN "untrusted" ELSE IF nOpen # 0 THEN "leaked" ELSE "ok"

\* ResealKey: the checks of the context after the profile is computed
CheckContext(nOpen, failedPaths) ==
    IF nOpen # 0 THEN "leaked" ELSE IF Len(failedPaths) > 0 THEN "untrusted" ELSE "ok"

\* Mutant of SealSteps: the TPM connection is opened before the sealed key is read
SealSteps_TpmFirst ==
    <<"ConnectToDefaultTPM", "ReadSealedKeyObjectFromFile", "UpdatePCRProtectionPolicy", "WriteAtomic">>

\* ResealKey: the services called once the profile is computed and checked
SealSteps ==
    <<"ReadSealedKeyObjectFromFile", "ConnectToDefaultTPM", "UpdatePCRProtectionPolicy", "WriteAtomic">>

\* The step of SealSteps that fails: 5 when none does
FailingStep(fail) ==
    CASE fail = "readkey" -> 1 [] fail = "tpm" -> 2 [] fail = "update" -> 3 [] fail = "write" -> 4
      [] OTHER -> Len(SealSteps) + 1

\* ResealKey: the sealed key object is read, its policy updated to the profile and
\* the file written atomically, up to the step that fails
UpdateSealedKey(fs, fail, profile) ==
    LET failing == FailingStep(fail)
        steps   == SubSeq(SealSteps, 1, Min(failing, Len(SealSteps)))
    IN  [err     |-> failing <= Len(SealSteps),
         kind    |-> IF failing <= Len(SealSteps) THEN fail ELSE "ok",
         calls   |-> [i \in 1 .. Len(steps) |-> Called(steps[i], KeyPath)],
         updated |-> failing > 3,
         written |-> failing > 4,
         files   |-> IF failing > 4 THEN WriteFile(fs, KeyPath, [policy |-> profile]) ELSE fs]

\* Mutant of HasSealedKey: ResealKey goes on without a sealed key file
HasSealedKey_Always(fs) == TRUE

\* ResealKey: Stat of the sealed key file does not report that it is missing
HasSealedKey(fs) == KeyPath \in DOMAIN fs

ResealResult(err, kind, names, opened, nOpen, updated, written, fs, profile, calls) ==
    [err |-> err, kind |-> kind, names |-> names, opened |-> opened, nOpen |-> nOpen,
     updated |-> updated, written |-> written, files |-> fs, profile |-> profile, calls |-> calls]

NoProfile == [roots |-> <<>>, nexts |-> <<>>]

\* ResealKey, with the kernel keyring and the device links of env.  fail names the
\* service that fails in this call: "profile", "leak", "leakprofile" (see
\* computePCRProtectionProfileOp), "readkey", "tpm", "update", "write", or "none".
ResealKeyIn(a, kmgr, fs, fail, env) ==
    LET roots   == ResealRoots(fs)
        kernels == ResealKernels(kmgr)
    IN  IF ~HasSealedKey(fs)
        THEN ResealResult(FALSE, "nokey", <<>>, <<>>, 0, FALSE, FALSE, fs, NoProfile, <<>>)
        ELSE With(getPolicyAuthKeyFromKernelOp(env), LAMBDA k :
          IF k.err # "nil"
          THEN ResealResult(TRUE, "authkey", <<>>, <<>>, 0, FALSE, FALSE, fs, NoProfile, k.calls)
          ELSE With(computePCRProtectionProfileOp(roots, kernels, fs, fail), LAMBDA p :
            With(FailedPaths(a, fs, p.closed), LAMBDA failed :
              IF p.err
              THEN ResealResult(TRUE, "profile", <<>>, p.opened, p.nOpen, FALSE, FALSE, fs, NoProfile,
                                k.calls \o p.calls)
              ELSE IF CheckContext(p.nOpen, failed) # "ok"
              THEN ResealResult(TRUE, CheckContext(p.nOpen, failed),
                                IF CheckContext(p.nOpen, failed) = "untrusted" THEN failed ELSE <<>>,
                                p.opened, p.nOpen, FALSE, FALSE, fs, NoProfile, k.calls \o p.calls)
              ELSE With(UpdateSealedKey(fs, fail,
                            [roots |-> [i \in 1 .. Len(roots) |-> fs[roots[i]]],
                             nexts |-> [i \in 1 .. Len(kernels) |-> fs[kernels[i]]]]), LAMBDA u :
                     ResealResult(u.err, u.kind, <<>>, p.opened, p.nOpen, u.updated, u.written, u.files,
                                  IF u.written THEN u.files[KeyPath].policy ELSE NoProfile,
                                  k.calls \o p.calls \o u.calls)))))

\* ResealKey as main() calls it.  fail = "authkey": the key is not in the keyring
ResealKeyOp(a, kmgr, fs, fail) ==
    ResealKeyIn(a, kmgr, fs, fail, IF fail = "authkey" THEN KeyMissing ELSE KeyFound)

ResealFailures == {"none", "authkey", "profile", "leak", "leakprofile", "readkey", "tpm", "update", "write"}

-----------------------------------------------------------------------------
(* efiImageFile *)

\* io.ReadFull of a section reader over block i of the file as it is on disk
ReadFull(disk, i) ==
    LET data == BlockOf(disk, i)
    IN  [data |-> data,
         err  |-> IF Len(data) = 0 THEN "EOF"
                  ELSE IF Len(data) < hashBlockSize THEN "ErrUnexpectedEOF" ELSE "nil"]

\* newEfiImageFile: leafHashes has one empty slot per block of the file
newEfiImageFile(disk) ==
    [leafHashes       |-> [k \in 1 .. NumBlocks(Len(disk)) |-> <<>>],
     cachedBlockIndex |-> -1,
     cachedBlock      |-> <<>>,
     sz               |-> Len(disk)]

\* Mutant of readAndCacheBlock: the hash is taken of the bytes read, not of the
\* whole block
readAndCacheBlock_Unpadded(f, disk, i) ==
    IF i = f.cachedBlockIndex THEN [f |-> f, err |-> "nil", mismatch |-> FALSE]
    ELSE IF i >= Len(f.leafHashes) THEN [f |-> f, err |-> "EOF", mismatch |-> FALSE]
    ELSE LET r  == ReadFull(disk, i)
             g  == [f EXCEPT !.cachedBlockIndex = i, !.cachedBlock = r.data]
             h  == <<"sha256", r.data>>
         IN  IF r.err = "EOF" THEN [f |-> f, err |-> "EOF", mismatch |-> FALSE]
             ELSE IF f.leafHashes[i + 1] = <<>>
             THEN [f |-> [g EXCEPT !.leafHashes[i + 1] = h], err |-> r.err, mismatch |-> FALSE]
             ELSE IF h # f.leafHashes[i + 1]
             THEN [f |-> g, err |-> "hash check fail", mismatch |-> TRUE]
             ELSE [f |-> g, err |-> r.err, mismatch |-> FALSE]

\* efiImageFile.readAndCacheBlock.  mismatch: the block was read before and its
\* hash is not the one recorded then
readAndCacheBlock(f, disk, i) ==
    IF i = f.cachedBlockIndex THEN [f |-> f, err |-> "nil", mismatch |-> FALSE]
    ELSE IF i >= Len(f.leafHashes) THEN [f |-> f, err |-> "EOF", mismatch |-> FALSE]
    ELSE LET r  == ReadFull(disk, i)
             g  == [f EXCEPT !.cachedBlockIndex = i, !.cachedBlock = r.data]
             h  == LeafHash(r.data)
         IN  IF r.err = "EOF" THEN [f |-> f, err |-> "EOF", mismatch |-> FALSE]
             ELSE IF f.leafHashes[i + 1] = <<>>
             THEN [f |-> [g EXCEPT !.leafHashes[i + 1] = h], err |-> r.err, mismatch |-> FALSE]
             ELSE IF h # f.leafHashes[i + 1]
             THEN [f |-> g, err |-> "hash check fail", mismatch |-> TRUE]
             ELSE [f |-> g, err |-> r.err, mismatch |-> FALSE]

\* The result of a ReadAt call: the file object after it, the bytes copied to p,
\* what it returned ("nil", "EOF", or "panic" for a run-time panic)
ReadAtResult(f, data, err, mismatch) ==
    [f |-> f, n |-> Len(data), data |-> data, err |-> err, mismatch |-> mismatch]

\* The loop of ReadAt over blocks i .. lastBlock, with data the bytes copied so far
RECURSIVE ReadAtLoop(_, _, _, _, _, _, _, _, _)
ReadAtLoop(f, disk, len, off, start, i, lastBlock, data, mismatch) ==
    IF i > lastBlock
    THEN ReadAtResult(f, data, IF Len(data) = 0 THEN "EOF" ELSE "nil", mismatch)
    ELSE With(readAndCacheBlock(f, disk, i), LAMBDA r :
            IF r.err \notin {"nil", "ErrUnexpectedEOF"}
            THEN ReadAtResult(r.f, data, IF Len(data) = 0 THEN "EOF" ELSE "nil", mismatch \/ r.mismatch)
            ELSE LET off0  == IF Len(data) = 0 THEN off - (start * hashBlockSize) ELSE 0
                     block == r.f.cachedBlock
                 IN  IF off0 > Len(block)
                     THEN ReadAtResult(r.f, data, "panic", mismatch)
                     ELSE LET rest == SubSeq(block, off0 + 1, Len(block))
                              sz   == len - Len(data)
                              part == IF sz < Len(rest) THEN SubSeq(rest, 1, sz) ELSE rest
                          IN  ReadAtLoop(r.f, disk, len, off, start, i + 1, lastBlock, data \o part, mismatch))

\* efiImageFile.ReadAt(p, off) with len(p) = len
ReadAt(f, disk, len, off) ==
    LET start == ((off + hashBlockSize) \div hashBlockSize) - 1
        end   == (off + len + hashBlockSize) \div hashBlockSize
    IN  ReadAtLoop(f, disk, len, off, start, start, end - 1, <<>>, FALSE)

\* The loop of Close over the leaf hashes from slot k: a block never read is read
\* and hashed now
RECURSIVE CloseLoop(_, _, _)
CloseLoop(leafHashes, disk, k) ==
    IF k > Len(leafHashes) THEN leafHashes
    ELSE IF leafHashes[k] # <<>> THEN CloseLoop(leafHashes, disk, k + 1)
    ELSE LET r == ReadFull(disk, k - 1)
         IN  IF r.err = "EOF" THEN leafHashes
             ELSE IF r.err = "ErrUnexpectedEOF" THEN [leafHashes EXCEPT ![k] = LeafHash(r.data)]
             ELSE CloseLoop([leafHashes EXCEPT ![k] = LeafHash(r.data)], disk, k + 1)

\* Mutant of Close: the root is not checked
Close_NoCheck(f, disk, a, ctx, path, closeErr) ==
    [f   |-> [f EXCEPT !.leafHashes = CloseLoop(f.leafHashes, disk, 1)],
     ctx |-> [ctx EXCEPT !.nOpen = @ - 1],
     err |-> closeErr]

\* efiImageFile.Close.  closeErr is what Close of the wrapped file returns
Close(f, disk, a, ctx, path, closeErr) ==
    LET leaves == CloseLoop(f.leafHashes, disk, 1)
    IN  [f   |-> [f EXCEPT !.leafHashes = leaves],
         ctx |-> [nOpen       |-> ctx.nOpen - 1,
                  failedPaths |-> IF checkLeafHashes(a, leaves) THEN ctx.failedPaths
                                  ELSE Append(ctx.failedPaths, path)],
         err |-> closeErr]

-----------------------------------------------------------------------------
(* InstallShim and the KernelManager *)

\* The result of a step that works on the file system only
FsResult(fs, err, wrote) == [files |-> fs, err |-> err, wrote |-> wrote]

\* Copies made one after the other, the one at position failAt failing as failure
\* says; the first error ends the sequence.  copies is a sequence of <<dst, src>>.
RECURSIVE CopyAll(_, _, _, _, _, _)
CopyAll(fs, copies, i, failAt, failure, wrote) ==
    IF i > Len(copies) THEN FsResult(fs, FALSE, wrote)
    ELSE With(MaybeUpdateFileOp(fs, copies[i][1], copies[i][2],
                                IF i = failAt THEN failure[1] ELSE "none", failure[2]),
              LAMBDA r : IF r.err THEN FsResult(r.files, TRUE, wrote \o r.wrote)
                         ELSE CopyAll(r.files, copies, i + 1, failAt, failure, wrote \o r.wrote))

\* InstallShim: the signed shim of the source directory is copied to the removable
\* media path and to the vendor directory of the ESP
InstallShimOp(fs, failAt, failure) ==
    CopyAll(fs, <<<<RemovableShimPath, ShimSourcePath>>, <<EspShimPath, ShimSourcePath>>>>,
            1, failAt, failure, <<>>)

\* NewKernelManager: both directories are listed, newest kernel first
NewKernelManagerOp(fs) ==
    [sourceKernels |-> SortDescending(ReadDirKernels(fs, KernelSourceDir)),
     targetKernels |-> SortDescending(ReadDirKernels(fs, TargetDir))]

\* KernelManager.InstallKernels: each source kernel is copied with MaybeUpdateFile;
\* after a successful pass the target list is read again
InstallKernelsOp(kmgr, fs, failAt, failure) ==
    LET copies == [i \in 1 .. Len(kmgr.sourceKernels) |->
                      <<Join(TargetDir, kmgr.sourceKernels[i]), Join(KernelSourceDir, kmgr.sourceKernels[i])>>]
    IN  With(CopyAll(fs, copies, 1, failAt, failure, <<>>),
             LAMBDA r : [files |-> r.files, err |-> r.err, wrote |-> r.wrote,
                         km |-> IF r.err THEN kmgr
                                ELSE [kmgr EXCEPT !.targetKernels =
                                                     SortDescending(ReadDirKernels(r.files, TargetDir))]])

\* /etc/kernel/cmdline
KernelCmdline == "root=magic"

\* The boot entry CommitToBootLoader makes for a kernel
KernelBootEntry(name) ==
    [Filename |-> "shimx64.efi",
     Label |-> "Ubuntu with kernel " \o KernelLabel(name),
     Options |-> "\\" \o name \o " " \o KernelCmdline,
     Description |-> "Ubuntu entry for kernel " \o KernelLabel(name)]

\* The state of the BootManager and of the store, with the steps taken on them
BmState(ents, order, ev, err, ws, nums) ==
    [entries |-> ents, bootOrder |-> order, efivars |-> ev, err |-> err, writes |-> ws, nums |-> nums]

\* CommitToBootLoader: FindOrCreateEntry for each entry in turn, collecting the numbers
RECURSIVE FindOrCreateAll(_, _, _, _)
FindOrCreateAll(st, bootEntries, i, fail) ==
    IF i > Len(bootEntries) \/ st.err THEN st
    ELSE With(PicksOf(st.entries, bootEntries[i], TargetDir), LAMBDA picks :
         With(FindOrCreateEntryOp(st.entries, st.bootOrder, st.efivars, bootEntries[i], TargetDir,
                                  fail, CHOOSE n \in picks : \A m \in picks : n <= m), LAMBDA r :
         With(BmState(r.entries, r.bootOrder, r.efivars, r.err, st.writes \o r.writes,
                      IF r.err THEN st.nums ELSE Append(st.nums, r.ret)), LAMBDA next :
         FindOrCreateAll(next, bootEntries, i + 1, fail))))

\* s in reverse
Reverse(s) == [i \in 1 .. Len(s) |-> s[Len(s) + 1 - i]]

\* strings.Contains(field, ","), for a field that is a sequence of characters
HasComma(field) == \E i \in 1 .. Len(field) : field[i] = ","

\* fmt.Fprintf(w, "%s,%s,%s,%s\n", ...)
CsvRecord(entry) ==
    entry.Filename \o <<",">> \o entry.Label \o <<",">> \o entry.Options \o <<",">>
    \o entry.Description \o <<"\n">>

\* Mutant of WriteShimFallback: an entry with a comma is left out and the next
\* entries are written
RECURSIVE WriteShimFallback_SkipsEntry(_, _, _, _)
WriteShimFallback_SkipsEntry(out, bootEntries, i, failAt) ==
    IF i > Len(bootEntries) THEN [out |-> out, err |-> "nil"]
    ELSE IF HasComma(bootEntries[i].Filename) \/ HasComma(bootEntries[i].Label)
            \/ HasComma(bootEntries[i].Options) \/ HasComma(bootEntries[i].Description)
    THEN WriteShimFallback_SkipsEntry(out, bootEntries, i + 1, failAt)
    ELSE IF failAt = i
    THEN [out |-> out, err |-> "could not write entry"]
    ELSE WriteShimFallback_SkipsEntry(out \o CsvRecord(bootEntries[i]), bootEntries, i + 1, failAt)

\* WriteShimFallback, from entry i on, after out was written: the characters
\* written to w and the error.  failAt: the entry at which w.Write fails (0: none)
RECURSIVE WriteShimFallback(_, _, _, _)
WriteShimFallback(out, bootEntries, i, failAt) ==
    IF i > Len(bootEntries) THEN [out |-> out, err |-> "nil"]
    ELSE IF HasComma(bootEntries[i].Filename) \/ HasComma(bootEntries[i].Label)
            \/ HasComma(bootEntries[i].Options) \/ HasComma(bootEntries[i].Description)
    THEN [out |-> out, err |-> "contains ','"]
    ELSE IF failAt = i
    THEN [out |-> out, err |-> "could not write entry"]
    ELSE WriteShimFallback(out \o CsvRecord(bootEntries[i]), bootEntries, i + 1, failAt)

\* WriteShimFallbackToFile: os.Create truncates the file, then one line per entry
WriteShimFallbackToFile(fs, path, bootEntries) ==
    WriteFile(fs, path, [i \in 1 .. Len(bootEntries) |->
        <<bootEntries[i].Filename, bootEntries[i].Label, bootEntries[i].Options, bootEntries[i].Description>>])

\* KernelManager.CommitToBootLoader.  hasBm: a BootManager was given; fail names the
\* call that fails ("none", "set": SetVariable, "csv": creating the CSV file).
CommitToBootLoaderOp(kmgr, hasBm, ents, order, orderAttrs, ev, fs, fail) ==
    LET bootEntries == [i \in 1 .. Len(kmgr.sourceKernels) |-> KernelBootEntry(kmgr.sourceKernels[i])]
        start   == BmState(ents, order, ev, FALSE, <<>>, <<>>)
        setFail == IF fail = "set" THEN "set" ELSE "none"
    IN  With(IF hasBm THEN FindOrCreateAll(start, bootEntries, 1, setFail) ELSE start, LAMBDA found :
        With(IF hasBm /\ ~found.err
             THEN PrependAndSetBootOrderOp(found.entries, found.bootOrder, orderAttrs, found.efivars,
                                           found.nums, setFail)
             ELSE found, LAMBDA ordered :
        With(BmState(ordered.entries, ordered.bootOrder, ordered.efivars, found.err \/ ordered.err,
                     IF hasBm /\ ~found.err THEN found.writes \o ordered.writes ELSE found.writes,
                     found.nums), LAMBDA bm :
        IF bm.err \/ fail = "csv"
        THEN [bm |-> [bm EXCEPT !.err = TRUE], files |-> fs, wrote |-> <<>>, err |-> TRUE]
        ELSE [bm |-> bm, files |-> WriteShimFallbackToFile(fs, CsvPath, Reverse(bootEntries)),
              wrote |-> <<CsvPath>>, err |-> FALSE])))

\* Mutant of EntriesOfFile: no entry is found
EntriesOfFile_None(ents, name) == {}

\* The Boot#### entries whose device path names the file name in the target directory
EntriesOfFile(ents, name) ==
    {n \in DOMAIN ents : /\ IsValidLoadOption(ents[n].Data)
                         /\ ents[n].Data[4] = NewDevicePath(TargetDir, name)}

\* DeleteEntry for each number of nums in turn
RECURSIVE DeleteAll(_, _, _)
DeleteAll(st, nums, fail) ==
    IF nums = {} \/ st.err THEN st
    ELSE With(CHOOSE x \in nums : \A y \in nums : x <= y, LAMBDA n :
         With(DeleteEntryOp(st.entries, st.bootOrder, st.efivars, n, fail), LAMBDA r :
         With(BmState(r.entries, r.bootOrder, r.efivars, r.err, st.writes \o r.writes, st.nums), LAMBDA next :
         DeleteAll(next, nums \ {n}, fail))))

\* KernelManager.RemoveObsoleteKernels, kernel by kernel from position i of the target
\* list.  fail names the call that fails ("none", "remove": Remove, "set": SetVariable).
RECURSIVE RemoveObsoleteFrom(_, _, _, _, _, _, _)
RemoveObsoleteFrom(kmgr, hasBm, st, fs, wrote, i, fail) ==
    IF i > Len(kmgr.targetKernels) THEN [bm |-> st, files |-> fs, wrote |-> wrote, err |-> FALSE]
    ELSE LET name == kmgr.targetKernels[i]
         IN  IF name \in Elems(kmgr.sourceKernels)
             THEN RemoveObsoleteFrom(kmgr, hasBm, st, fs, wrote, i + 1, fail)
             ELSE IF fail = "remove"
             THEN [bm |-> st, files |-> fs, wrote |-> wrote, err |-> TRUE]
             ELSE With(RemoveFile(fs, Join(TargetDir, name)), LAMBDA gone :
                  With(IF hasBm
                       THEN DeleteAll(st, EntriesOfFile(st.entries, name), IF fail = "set" THEN "set" ELSE "none")
                       ELSE st, LAMBDA del :
                  IF del.err
                  THEN [bm |-> del, files |-> gone, wrote |-> Append(wrote, Join(TargetDir, name)), err |-> TRUE]
                  ELSE RemoveObsoleteFrom(kmgr, hasBm, del, gone, Append(wrote, Join(TargetDir, name)),
                                          i + 1, fail)))

\* KernelManager.RemoveObsoleteKernels; afterwards the target list holds the kernels
\* that could not be removed
RemoveObsoleteKernelsOp(kmgr, hasBm, ents, order, ev, fs, fail) ==
    With(RemoveObsoleteFrom(kmgr, hasBm, BmState(ents, order, ev, FALSE, <<>>, <<>>), fs, <<>>, 1, fail),
         LAMBDA r : [bm |-> r.bm, files |-> r.files, wrote |-> r.wrote, err |-> r.err,
                     km |-> IF r.err THEN kmgr ELSE [kmgr EXCEPT !.targetKernels = <<>>]])

-----------------------------------------------------------------------------
(* Specification SpecRun: runs of nullbootctl *)

\* The steps of main(), in the order of the source
MainSteps ==
    <<"main", "ReadTrustedAssets", "TrustNewFromDir", "TrustCurrentBoot", "NewBootManager",
      "NewKernelManager", "SaveInitial", "ResealInitial", "InstallShim", "InstallKernels",
      "CommitFirst", "RemoveObsoleteKernels", "CommitSecond", "RemoveObsoleteAssets", "SaveFinal",
      "ResealFinal", "DumpJSON">>

\* Mutant order: the initial reseal comes after the installation of the shim
MainSteps_ShimFirst ==
    <<"main", "ReadTrustedAssets", "TrustNewFromDir", "TrustCurrentBoot", "NewBootManager",
      "NewKernelManager", "SaveInitial", "InstallShim", "ResealInitial", "InstallKernels",
      "CommitFirst", "RemoveObsoleteKernels", "CommitSecond", "RemoveObsoleteAssets", "SaveFinal",
      "ResealFinal", "DumpJSON">>

\* The steps guarded by if !*noTPM / if assets != nil, and by if !*noEfivars
TpmSteps ==
    {"ReadTrustedAssets", "TrustNewFromDir", "TrustCurrentBoot", "SaveInitial", "ResealInitial",
     "RemoveObsoleteAssets", "SaveFinal", "ResealFinal"}

StepRuns(step, fl) ==
    /\ step \in TpmSteps => ~fl.noTPM
    /\ step = "NewBootManager" => ~fl.noEfivars

\* The step of order that runs after step under the flags fl
StepAfterIn(order, step, fl) ==
    LET at    == CHOOSE i \in 1 .. Len(order) : order[i] = step
        later == {i \in (at + 1) .. Len(order) : StepRuns(order[i], fl)}
    IN  IF later = {} THEN "return" ELSE order[CHOOSE i \in later : \A j \in later : i <= j]

StepAfter_ShimFirst(step, fl) == StepAfterIn(MainSteps_ShimFirst, step, fl)

\* main(): the statement that follows step
StepAfter(step, fl) == StepAfterIn(MainSteps, step, fl)

\* A function from a set of <<path, content>> pairs
MakeFs(pairs) == [p \in {x[1] : x \in pairs} |-> (CHOOSE x \in pairs : x[1] = p)[2]]

\* The ESP images of a file system: the shim and the kernels of the vendor directory
EspImages(fs) ==
    SelectSeq(<<EspShimPath>>, LAMBDA p : p \in DOMAIN fs) \o DirImages(fs, TargetDir)

\* The file systems a run starts from.  The source directories hold the new shim and
\* any of the kernels; the ESP holds no shim, the new one or an old one, and any of the
\* kernels, the first of them possibly in an older build; the sealed key and the
\* trusted assets file (trusting what the ESP holds) are there or not.
RunFileSystems ==
    { MakeFs(srcShim \cup espShim \cup srcKernels \cup espK1 \cup espK12 \cup key)
      @@ (IF trusted
          THEN MakeFs({<<trustedAssetsPath,
                         [alg |-> "sha256",
                          hashes |-> LET fs  == MakeFs(espShim \cup espK1 \cup espK12)
                                         img == EspImages(fs)
                                     IN  [i \in 1 .. Len(img) |-> RootHash(fs[img[i]])]]>>})
          ELSE <<>>) :
        srcShim \in {{}, {<<ShimSourcePath, ShimNew>>}},
        espShim \in {{}, {<<EspShimPath, ShimNew>>, <<RemovableShimPath, ShimNew>>},
                         {<<EspShimPath, ShimOld>>, <<RemovableShimPath, ShimOld>>}},
        srcKernels \in {{<<Join(KernelSourceDir, k), KernelImage(k)>> : k \in K} : K \in SUBSET KernelNames},
        espK1 \in {{}, {<<Join(TargetDir, "kernel.efi-1.0-1-generic"), KernelImage("kernel.efi-1.0-1-generic")>>},
                       {<<Join(TargetDir, "kernel.efi-1.0-1-generic"), KernelOldImage("kernel.efi-1.0-1-generic")>>}},
        espK12 \in {{}, {<<Join(TargetDir, "kernel.efi-1.0-12-generic"), KernelImage("kernel.efi-1.0-12-generic")>>}},
        key \in {{}, {<<KeyPath, [policy |-> NoProfile]>>}},
        trusted \in BOOLEAN }

\* The variables of the firmware when the tool runs first (bootmgr_test.go), and
\* the empty MockEFIVariables main() uses with --output-json
FirmwareStore ==
    [n \in {"BootOrder", "Timeout"} |->
        IF n = "BootOrder" THEN [data |-> EncodeBootOrder(<<1, 2>>), attrs |-> ForeignOrderAttrs]
        ELSE OtherVariables[n]]

EmptyStore == [n \in {} |-> [data |-> <<>>, attrs |-> 0]]

\* Number of times the tool is invoked in one behaviour
MaxRuns == 2

NoKernelManager == [sourceKernels |-> <<>>, targetKernels |-> <<>>]

InitRun ==
    /\ flags \in [noTPM : BOOLEAN, noEfivars : BOOLEAN, outputJSON : BOOLEAN]
    /\ files \in RunFileSystems
    /\ efivars = IF flags.outputJSON THEN EmptyStore ELSE FirmwareStore
    /\ pc = StepAfter("main", flags)
    /\ exit = [code |-> -1, step |-> ""]
    /\ assets = NoAssets
    /\ km = NoKernelManager
    /\ fileWrites = <<>>
    /\ log = <<>>
    /\ reseals = <<>>
    /\ runs = 1
    /\ loaded = FALSE
    /\ entries = <<>>
    /\ bootOrder = <<>>
    /\ bootOrderAttrs = 0
    /\ last = NoOp
    /\ writes = <<>>
    /\ pre = [entries |-> <<>>, bootOrder |-> <<>>, efivars |-> efivars, files |-> files, complete |-> FALSE]
    /\ deleted = {}
    /\ revived = {}
    /\ nOps = 0
    /\ image = <<>>
    /\ call = <<>>
    /\ ta = <<>>
    /\ lib = <<>>

\* One entry of the log
Event(kind, what) == [kind |-> kind, what |-> what]

\* The log entries of a step: its name, the files it wrote or removed, the variables it set
StepEvents(step, wrote, ws) ==
    <<Event("step", step)>>
    \o [i \in 1 .. Len(wrote) |-> Event("fileWrite", wrote[i])]
    \o [i \in 1 .. Len(ws) |-> Event("varWrite", ws[i].name)]

\* The step at pc is over: os.Exit(1) after an error, the next statement otherwise
Proceed(step, err) ==
    /\ pc' = IF err THEN "exited" ELSE StepAfter(step, flags)
    /\ exit' = IF err THEN [code |-> 1, step |-> step] ELSE exit

bmState == <<loaded, entries, bootOrder, bootOrderAttrs, efivars>>

history == <<last, pre, deleted, revived, nOps, flags, runs, otherVars>>

\* assets, err = efibootmgr.ReadTrustedAssets()
ReadTrustedAssets ==
    /\ pc = "ReadTrustedAssets"
    /\ \E fail \in BOOLEAN :
         /\ assets' = IF fail THEN assets ELSE ReadTrustedAssetsOp(files)
         /\ Proceed("ReadTrustedAssets", fail)
    /\ log' = log \o StepEvents("ReadTrustedAssets", <<>>, <<>>)
    /\ writes' = <<>> /\ fileWrites' = <<>>
    /\ UNCHANGED <<bmState, history, files, km, reseals>>

\* assets.TrustNewFromDir(p) for the shim and the kernel source directories
TrustNewFromDir ==
    /\ pc = "TrustNewFromDir"
    /\ \E fail \in BOOLEAN :
         /\ assets' = IF fail THEN assets
                      ELSE TrustNewFromDirOp(TrustNewFromDirOp(assets, files, ShimSourceDir), files, KernelSourceDir)
         /\ Proceed("TrustNewFromDir", fail)
    /\ log' = log \o StepEvents("TrustNewFromDir", <<>>, <<>>)
    /\ writes' = <<>> /\ fileWrites' = <<>>
    /\ UNCHANGED <<bmState, history, files, km, reseals>>

\* efibootmgr.TrustCurrentBoot(assets, esp): the images of the ESP that the event log
\* of this boot measured, with a matching digest, become trusted
TrustCurrentBoot ==
    /\ pc = "TrustCurrentBoot"
    /\ \E fail \in BOOLEAN, booted \in {<<>>, EspImages(files)} :
         /\ assets' = IF fail THEN assets ELSE TrustFiles(assets, files, booted)
         /\ Proceed("TrustCurrentBoot", fail)
    /\ log' = log \o StepEvents("TrustCurrentBoot", <<>>, <<>>)
    /\ writes' = <<>> /\ fileWrites' = <<>>
    /\ UNCHANGED <<bmState, history, files, km, reseals>>

\* efibootmgr.NewBootManagerForVariables(efivars)
NewBootManagerForVariables ==
    /\ pc = "NewBootManager"
    /\ \E supported \in BOOLEAN :
         LET ok == supported /\ "BootOrder" \in DOMAIN efivars
         IN  /\ loaded' = ok
             /\ entries' = IF ok THEN LoadEntries(efivars) ELSE <<>>
             /\ bootOrder' = IF ok THEN DecodeBootOrder(efivars["BootOrder"].data) ELSE <<>>
             /\ bootOrderAttrs' = IF ok THEN efivars["BootOrder"].attrs ELSE 0
             /\ Proceed("NewBootManager", ~ok)
    /\ log' = log \o StepEvents("NewBootManager", <<>>, <<>>)
    /\ writes' = <<>> /\ fileWrites' = <<>>
    /\ UNCHANGED <<efivars, history, files, assets, km, reseals>>

\* efibootmgr.NewKernelManager(esp, kernelSourceDir, vendor, maybeBm)
NewKernelManager ==
    /\ pc = "NewKernelManager"
    /\ \E fail \in BOOLEAN :
         /\ km' = IF fail THEN km ELSE NewKernelManagerOp(files)
         /\ Proceed("NewKernelManager", fail)
    /\ log' = log \o StepEvents("NewKernelManager", <<>>, <<>>)
    /\ writes' = <<>> /\ fileWrites' = <<>>
    /\ UNCHANGED <<bmState, history, files, assets, reseals>>

\* assets.Save(), before the initial and before the final reseal
Save ==
    /\ pc \in {"SaveInitial", "SaveFinal"}
    /\ \E fail \in BOOLEAN :
         /\ files' = SaveOp(assets, files, fail)
         /\ fileWrites' = IF fail THEN <<>> ELSE <<trustedAssetsPath>>
         /\ log' = log \o StepEvents(pc, <<>>, <<>>)
                       \o (IF fail THEN <<>> ELSE <<Event("assets", "Save")>>)
         /\ Proceed(pc, fail)
    /\ writes' = <<>>
    /\ UNCHANGED <<bmState, history, assets, km, reseals>>

\* efibootmgr.ResealKey(assets, km, esp, shimSourceDir, vendor), initial and final
ResealKey ==
    /\ pc \in {"ResealInitial", "ResealFinal"}
    /\ \E fail \in ResealFailures :
         \E r \in {ResealKeyOp(assets, km, files, fail)} :
             /\ files' = r.files
             /\ fileWrites' = IF r.written THEN <<KeyPath>> ELSE <<>>
             /\ reseals' = Append(reseals,
                    [step |-> pc, err |-> r.err, kind |-> r.kind, names |-> r.names, opened |-> r.opened,
                     nOpen |-> r.nOpen, updated |-> r.updated, written |-> r.written, profile |-> r.profile,
                     untrusted |-> SelectSeq(r.opened, LAMBDA p : RootHash(files[p]) \notin Elems(assets.loaded)),
                     keyBefore |-> IF KeyPath \in DOMAIN files THEN <<files[KeyPath]>> ELSE <<>>,
                     keyAfter |-> IF KeyPath \in DOMAIN r.files THEN <<r.files[KeyPath]>> ELSE <<>>])
             /\ log' = log \o StepEvents(pc, <<>>, <<>>)
                           \o (IF r.written THEN <<Event("sealedKeyWrite", KeyPath)>> ELSE <<>>)
             /\ Proceed(pc, r.err)
    /\ writes' = <<>>
    /\ UNCHANGED <<bmState, history, assets, km>>

\* efibootmgr.InstallShim(esp, shimSourceDir, vendor)
InstallShim ==
    /\ pc = "InstallShim"
    /\ \E failAt \in 1 .. 2, failure \in CopyFailures :
         \E r \in {InstallShimOp(files, failAt, failure)} :
             /\ files' = r.files
             /\ fileWrites' = r.wrote
             /\ log' = log \o StepEvents("InstallShim", r.wrote, <<>>)
             /\ Proceed("InstallShim", r.err)
    /\ writes' = <<>>
    /\ UNCHANGED <<bmState, history, assets, km, reseals>>

\* km.InstallKernels()
InstallKernels ==
    /\ pc = "InstallKernels"
    /\ \E failAt \in 1 .. Cardinality(KernelNames), failure \in CopyFailures :
         \E r \in {InstallKernelsOp(km, files, failAt, failure)} :
             /\ files' = r.files
             /\ km' = r.km
             /\ fileWrites' = r.wrote
             /\ log' = log \o StepEvents("InstallKernels", r.wrote, <<>>)
             /\ Proceed("InstallKernels", r.err)
    /\ writes' = <<>>
    /\ UNCHANGED <<bmState, history, assets, reseals>>

\* km.CommitToBootLoader(), after the installation and after the cleanup
CommitToBootLoader ==
    /\ pc \in {"CommitFirst", "CommitSecond"}
    /\ \E fail \in {"none", "set", "csv"} :
         \E r \in {CommitToBootLoaderOp(km, loaded, entries, bootOrder, bootOrderAttrs, efivars, files, fail)} :
             /\ entries' = r.bm.entries
             /\ bootOrder' = r.bm.bootOrder
             /\ efivars' = r.bm.efivars
             /\ writes' = r.bm.writes
             /\ files' = r.files
             /\ fileWrites' = r.wrote
             /\ log' = log \o StepEvents(pc, r.wrote, r.bm.writes)
             /\ Proceed(pc, r.err)
    /\ UNCHANGED <<loaded, bootOrderAttrs, history, assets, km, reseals>>

\* km.RemoveObsoleteKernels()
RemoveObsoleteKernels ==
    /\ pc = "RemoveObsoleteKernels"
    /\ \E fail \in {"none", "remove", "set"} :
         \E r \in {RemoveObsoleteKernelsOp(km, loaded, entries, bootOrder, efivars, files, fail)} :
             /\ entries' = r.bm.entries
             /\ bootOrder' = r.bm.bootOrder
             /\ efivars' = r.bm.efivars
             /\ writes' = r.bm.writes
             /\ files' = r.files
             /\ km' = r.km
             /\ fileWrites' = r.wrote
             /\ log' = log \o StepEvents("RemoveObsoleteKernels", r.wrote, r.bm.writes)
             /\ Proceed("RemoveObsoleteKernels", r.err)
    /\ UNCHANGED <<loaded, bootOrderAttrs, history, assets, reseals>>

\* assets.RemoveObsolete()
RemoveObsolete ==
    /\ pc = "RemoveObsoleteAssets"
    /\ assets' = RemoveObsoleteOp(assets)
    /\ log' = log \o <<Event("step", "RemoveObsoleteAssets"), Event("assets", "RemoveObsolete")>>
    /\ Proceed("RemoveObsoleteAssets", FALSE)
    /\ writes' = <<>> /\ fileWrites' = <<>>
    /\ UNCHANGED <<bmState, history, files, km, reseals>>

\* The end of main(): the type assertion efivars.(*efibootmgr.MockEFIVariables)
\* panics on RealEFIVariables (the Go runtime exits with status 2); with
\* --output-json the variables are written to the file.  fail names the call that
\* fails ("none", "json", "create", "write").
DumpJSON ==
    /\ pc = "DumpJSON"
    /\ \E fail \in {"none", "json", "create", "write"} :
         /\ pc' = "exited"
         /\ exit' = [code |-> IF ~flags.outputJSON \/ fail = "json" THEN 2
                              ELSE IF fail \in {"create", "write"} THEN 1 ELSE 0,
                     step |-> "DumpJSON"]
         /\ log' = log \o StepEvents("DumpJSON", <<>>, <<>>)
                       \o (IF flags.outputJSON THEN <<Event("dump", fail)>> ELSE <<>>)
    /\ writes' = <<>> /\ fileWrites' = <<>>
    /\ UNCHANGED <<bmState, history, files, assets, km, reseals>>

\* The tool is invoked again, with the same command line, after a run that has
\* ended: after its last step, or after the os.Exit(1) of a step that failed
Reinvoke ==
    /\ pc = "exited"
    /\ runs < MaxRuns
    /\ runs' = runs + 1
    /\ pc' = StepAfter("main", flags)
    /\ exit' = [code |-> -1, step |-> ""]
    /\ efivars' = IF flags.outputJSON THEN EmptyStore ELSE efivars
    /\ loaded' = FALSE
    /\ entries' = <<>>
    /\ bootOrder' = <<>>
    /\ bootOrderAttrs' = 0
    /\ assets' = NoAssets
    /\ km' = NoKernelManager
    /\ writes' = <<>> /\ fileWrites' = <<>>
    /\ log' = <<>>
    /\ reseals' = <<>>
    /\ pre' = [entries |-> <<>>, bootOrder |-> <<>>, efivars |-> efivars', files |-> files,
               complete |-> exit.step = "DumpJSON"]
    /\ UNCHANGED <<files, flags, last, deleted, revived, nOps, otherVars>>

NextRun ==
    \/ ReadTrustedAssets
    \/ TrustNewFromDir
    \/ TrustCurrentBoot
    \/ NewBootManagerForVariables
    \/ NewKernelManager
    \/ Save
    \/ ResealKey
    \/ InstallShim
    \/ InstallKernels
    \/ CommitToBootLoader
    \/ RemoveObsoleteKernels
    \/ RemoveObsolete
    \/ DumpJSON
    \/ Reinvoke

SpecRun == InitRun /\ [][NextRun]_vars

-----------------------------------------------------------------------------
(* SpecImage: one efiImageFile, read and closed while its file may change *)

MaxFileLen == 4

MaxReadLen == 4

MaxReads == 3

MaxChanges == 1

ImagePath == "/foo"

\* The files an image is opened on: the bytes 1, 2, .. up to MaxFileLen of them
ImageFiles == {[i \in 1 .. n |-> i] : n \in 0 .. MaxFileLen}

\* What another process may make of the file: one byte overwritten, or the last cut
ChangesOf(disk) ==
    {[disk EXCEPT ![p] = 9] : p \in {q \in DOMAIN disk : disk[q] # 9}}
    \cup (IF disk = <<>> THEN {} ELSE {SubSeq(disk, 1, Len(disk) - 1)})

NewAssets == [present |-> TRUE, loaded |-> <<>>, newAssets |-> <<>>]

NoRead == [op |-> "none", off |-> 0, len |-> 0, n |-> 0, data |-> <<>>, err |-> "nil", mismatch |-> FALSE]

\* The file is opened: TrustNewFromDir may have run over its directory before,
\* other files may have been opened and closed in the same context
InitImage ==
    /\ \E disk \in ImageFiles, trust \in BOOLEAN, others \in {<<>>, <<"/bar">>} :
         image = [disk    |-> disk,
                  atOpen  |-> disk,
                  f       |-> newEfiImageFile(disk),
                  status  |-> "open",
                  ctx     |-> [nOpen |-> 1 + Len(others), failedPaths |-> others],
                  assets  |-> IF trust THEN TrustHash(NewAssets, RootHash(disk)) ELSE NewAssets,
                  changes |-> 0,
                  reads   |-> 0,
                  fileClose |-> "nil",
                  last    |-> NoRead,
                  before  |-> [f |-> newEfiImageFile(disk), ctx |-> [nOpen |-> 0, failedPaths |-> <<>>], disk |-> disk]]
    /\ call = <<>>
    /\ ta = <<>>
    /\ efivars = <<>>
    /\ loaded = FALSE
    /\ entries = <<>>
    /\ bootOrder = <<>>
    /\ bootOrderAttrs = 0
    /\ last = NoOp
    /\ writes = <<>>
    /\ pre = NoPre
    /\ deleted = {}
    /\ revived = {}
    /\ nOps = 0
    /\ pc = "image"
    /\ flags = [noTPM |-> FALSE, noEfivars |-> TRUE, outputJSON |-> FALSE]
    /\ exit = [code |-> -1, step |-> ""]
    /\ files = <<>>
    /\ assets = NoAssets
    /\ km = [sourceKernels |-> <<>>, targetKernels |-> <<>>]
    /\ fileWrites = <<>>
    /\ log = <<>>
    /\ reseals = <<>>
    /\ runs = 0
    /\ lib = <<>>

\* ef.ReadAt(p, off), for a buffer of len bytes
ImageReadAt ==
    /\ pc = "image" /\ image.status = "open" /\ image.reads < MaxReads
    /\ \E off \in 0 .. MaxFileLen + hashBlockSize, len \in 1 .. MaxReadLen :
         \E r \in {ReadAt(image.f, image.disk, len, off)} :
            image' = [image EXCEPT
                        !.f = r.f,
                        !.status = IF r.err = "panic" THEN "panicked" ELSE "open",
                        !.reads = @ + 1,
                        !.last = [op |-> "ReadAt", off |-> off, len |-> len, n |-> r.n, data |-> r.data,
                                  err |-> r.err, mismatch |-> r.mismatch],
                        !.before = [f |-> image.f, ctx |-> image.ctx, disk |-> image.disk]]
    /\ UNCHANGED <<bmVars, runVars, call, ta, lib>>

\* The file changes on disk while it is open
ImageChange ==
    /\ pc = "image" /\ image.status = "open" /\ image.changes < MaxChanges
    /\ \E disk \in ChangesOf(image.disk) :
         image' = [image EXCEPT !.disk = disk, !.changes = @ + 1]
    /\ UNCHANGED <<bmVars, runVars, call, ta, lib>>

\* ef.Close()
ImageClose ==
    /\ pc = "image" /\ image.status = "open"
    /\ \E closeErr \in {"nil", "EIO"} :
         \E r \in {Close(image.f, image.disk, image.assets, image.ctx, ImagePath, closeErr)} :
            image' = [image EXCEPT
                        !.f = r.f,
                        !.ctx = r.ctx,
                        !.status = "closed",
                        !.fileClose = closeErr,
                        !.last = [op |-> "Close", off |-> 0, len |-> 0, n |-> 0, data |-> <<>>,
                                  err |-> r.err, mismatch |-> FALSE],
                        !.before = [f |-> image.f, ctx |-> image.ctx, disk |-> image.disk]]
    /\ UNCHANGED <<bmVars, runVars, call, ta, lib>>

NextImage ==
    \/ ImageReadAt
    \/ ImageChange
    \/ ImageClose

SpecImage == InitImage /\ [][NextImage]_vars

-----------------------------------------------------------------------------
(* Specification SpecReseal: calls of ResealKey *)

\* Number of entries of /dev/disk/by-partuuid
MaxPartuuid == 4

\* The entries of /dev/disk/by-partuuid, by name, with the device each resolves to
\* ("" for one that cannot be resolved)
PartuuidEntries ==
    [i \in 1 .. MaxPartuuid |->
        [name   |-> ToString(1000 + i),
         target |-> CASE i % 4 = 1 -> "/dev/sdb1"
                      [] i % 4 = 3 -> ""
                      [] OTHER -> "/dev/sda1"]]

\* What the key service answers to a request
KeyAnswers == {"found", "ErrKernelKeyNotFound", "error"}

\* The kernel keyrings and device links ResealKey is called with: os.ReadDir
\* returns the entries that exist sorted by name
KeyEnvs ==
    { [label |-> label, keyctl |-> keyctl, first |-> first, retry |-> retry, readable |-> readable,
       partuuid |-> SelectSeq(PartuuidEntries, LAMBDA e : e.name \in names)] :
        label \in {"", "/dev/sda1"}, keyctl \in BOOLEAN, first \in KeyAnswers, retry \in KeyAnswers,
        readable \in BOOLEAN,
        names \in SUBSET {PartuuidEntries[i].name : i \in 1 .. MaxPartuuid} }

\* The assets main() trusts when it calls ResealKey
AssetsOfRun(fs) ==
    TrustNewFromDirOp(TrustNewFromDirOp(ReadTrustedAssetsOp(fs), fs, ShimSourceDir), fs, KernelSourceDir)

NoCall == [err |-> FALSE, kind |-> "", names |-> <<>>, opened |-> <<>>, nOpen |-> 0, updated |-> FALSE,
           written |-> FALSE, files |-> <<>>, profile |-> NoProfile, calls |-> <<>>]

InitReseal ==
    /\ \E fs \in RunFileSystems, fail \in ResealFailures \ {"authkey"}, env \in KeyEnvs :
         /\ env = KeyFound \/ (fail = "none" /\ ShimSourcePath \in DOMAIN fs /\ trustedAssetsPath \in DOMAIN fs
                               /\ Join(KernelSourceDir, "kernel.efi-1.0-12-generic") \notin DOMAIN fs
                               /\ Join(TargetDir, "kernel.efi-1.0-1-generic") \notin DOMAIN fs
                               /\ (EspShimPath \in DOMAIN fs => fs[EspShimPath] = ShimNew))
         /\ call = [fs |-> fs, assets |-> AssetsOfRun(fs), km |-> NewKernelManagerOp(fs),
                    fail |-> fail, env |-> env, done |-> FALSE, result |-> NoCall]
    /\ image = <<>>
    /\ ta = <<>>
    /\ efivars = <<>>
    /\ loaded = FALSE
    /\ entries = <<>>
    /\ bootOrder = <<>>
    /\ bootOrderAttrs = 0
    /\ last = NoOp
    /\ writes = <<>>
    /\ pre = NoPre
    /\ deleted = {}
    /\ revived = {}
    /\ nOps = 0
    /\ pc = "reseal"
    /\ flags = [noTPM |-> FALSE, noEfivars |-> TRUE, outputJSON |-> FALSE]
    /\ exit = [code |-> -1, step |-> ""]
    /\ files = <<>>
    /\ assets = NoAssets
    /\ km = [sourceKernels |-> <<>>, targetKernels |-> <<>>]
    /\ fileWrites = <<>>
    /\ log = <<>>
    /\ reseals = <<>>
    /\ runs = 0
    /\ lib = <<>>

\* ResealKey(assets, km, esp, shimSource, vendor)
ResealKeyCall ==
    /\ pc = "reseal" /\ ~call.done
    /\ \E r \in {ResealKeyIn(call.assets, call.km, call.fs, call.fail, call.env)} :
         call' = [call EXCEPT !.done = TRUE, !.result = r]
    /\ UNCHANGED <<bmVars, runVars, image, ta, lib>>

NextReseal == ResealKeyCall

SpecReseal == InitReseal /\ [][NextReseal]_vars

-----------------------------------------------------------------------------
(* Specification SpecAssets: a TrustedAssets *)

\* Number of root hashes, of hashes in the trusted assets file, and of calls
MaxHashes == 3

MaxLoaded == 2

MaxAssetCalls == 3

\* The files of one block, and their root hashes
AssetFiles == {<<h>> : h \in 1 .. MaxHashes}

AssetHashes == {RootHash(c) : c \in AssetFiles}

\* The file systems with a directory of files: each name is absent, or a file
AssetDirs ==
    { MakeFs({<<Join(KernelSourceDir, k), content[k]>> : k \in K}) :
        K \in SUBSET KernelNames, content \in [KernelNames -> AssetFiles] }

\* The lists of at most n hashes
RECURSIVE HashLists(_)
HashLists(n) ==
    IF n = 0 THEN {<<>>}
    ELSE HashLists(n - 1) \cup {Append(l, h) : l \in {x \in HashLists(n - 1) : Len(x) = n - 1}, h \in AssetHashes}

\* ReadTrustedAssets() over a trusted assets file with any list of hashes, or none
InitAssets ==
    /\ \E hashes \in HashLists(MaxLoaded), onDisk \in BOOLEAN :
         /\ (~onDisk => hashes = <<>>)
         /\ ta = [assets |-> [present |-> TRUE, loaded |-> hashes, newAssets |-> <<>>],
                  disk   |-> [exists |-> onDisk, hashes |-> hashes],
                  before |-> [present |-> TRUE, loaded |-> hashes, newAssets |-> <<>>],
                  dir    |-> <<>>,
                  ops    |-> <<>>]
    /\ image = <<>>
    /\ call = <<>>
    /\ efivars = <<>>
    /\ loaded = FALSE
    /\ entries = <<>>
    /\ bootOrder = <<>>
    /\ bootOrderAttrs = 0
    /\ last = NoOp
    /\ writes = <<>>
    /\ pre = NoPre
    /\ deleted = {}
    /\ revived = {}
    /\ nOps = 0
    /\ pc = "assets"
    /\ flags = [noTPM |-> FALSE, noEfivars |-> TRUE, outputJSON |-> FALSE]
    /\ exit = [code |-> -1, step |-> ""]
    /\ files = <<>>
    /\ assets = NoAssets
    /\ km = [sourceKernels |-> <<>>, targetKernels |-> <<>>]
    /\ fileWrites = <<>>
    /\ log = <<>>
    /\ reseals = <<>>
    /\ runs = 0
    /\ lib = <<>>

\* The trusted assets file of ta.disk, as a file system
AssetsDisk(d) ==
    IF d.exists THEN MakeFs({<<trustedAssetsPath, [alg |-> "sha256", hashes |-> d.hashes]>>}) ELSE <<>>

\* assets.trustLeafHashes, for a file whose root hash is h
AssetsTrust ==
    /\ pc = "assets" /\ Len(ta.ops) < MaxAssetCalls
    /\ \E h \in AssetHashes :
         ta' = [ta EXCEPT !.assets = TrustHash(ta.assets, h), !.before = ta.assets,
                          !.dir = <<>>, !.ops = Append(@, "Trust")]
    /\ UNCHANGED <<bmVars, runVars, image, call, lib>>

\* assets.TrustNewFromDir(dir), for the files the directory holds
AssetsTrustNewFromDir ==
    /\ pc = "assets" /\ Len(ta.ops) < MaxAssetCalls
    /\ \E fs \in AssetDirs :
         ta' = [ta EXCEPT !.assets = TrustNewFromDirOp(ta.assets, fs, KernelSourceDir),
                          !.before = ta.assets, !.dir = fs,
                          !.ops = Append(@, "TrustNewFromDir")]
    /\ UNCHANGED <<bmVars, runVars, image, call, lib>>

\* assets.RemoveObsolete()
AssetsRemoveObsolete ==
    /\ pc = "assets" /\ Len(ta.ops) < MaxAssetCalls
    /\ ta' = [ta EXCEPT !.assets = RemoveObsoleteOp(ta.assets), !.before = ta.assets,
                        !.dir = <<>>, !.ops = Append(@, "RemoveObsolete")]
    /\ UNCHANGED <<bmVars, runVars, image, call, lib>>

\* assets.Save()
AssetsSave ==
    /\ pc = "assets" /\ Len(ta.ops) < MaxAssetCalls
    /\ \E fail \in BOOLEAN :
         \E fs \in {SaveOp(ta.assets, AssetsDisk(ta.disk), fail)} :
             ta' = [ta EXCEPT !.disk = IF trustedAssetsPath \in DOMAIN fs
                                       THEN [exists |-> TRUE, hashes |-> fs[trustedAssetsPath].hashes]
                                       ELSE [exists |-> FALSE, hashes |-> <<>>],
                              !.before = ta.assets,
                              !.dir = <<>>,
                              !.ops = Append(@, IF fail THEN "SaveFailed" ELSE "Save")]
    /\ UNCHANGED <<bmVars, runVars, image, call, lib>>

NextAssets ==
    \/ AssetsTrust
    \/ AssetsTrustNewFromDir
    \/ AssetsRemoveObsolete
    \/ AssetsSave

SpecAssets == InitAssets /\ [][NextAssets]_vars

-----------------------------------------------------------------------------
(* Specification SpecCopy: MaybeUpdateFile calls on a file system *)

\* Number of MaybeUpdateFile calls
MaxCopies == 3

\* The paths of the calls, and the contents of the files
CopyPaths == {ShimSourcePath, EspShimPath, RemovableShimPath}

CopyContents == {ShimNew, ShimOld, <<>>}

CopyFileSystems ==
    { MakeFs({<<p, content[p]>> : p \in P}) : P \in SUBSET CopyPaths, content \in [CopyPaths -> CopyContents] }

NoCopy == [op |-> "none", dst |-> "", src |-> "", fail |-> "none", before |-> <<>>,
           updated |-> FALSE, err |-> FALSE, wrote |-> <<>>]

\* The variables of the other specifications
InitUnused ==
    /\ efivars = <<>>
    /\ loaded = FALSE
    /\ entries = <<>>
    /\ bootOrder = <<>>
    /\ bootOrderAttrs = 0
    /\ last = NoOp
    /\ writes = <<>>
    /\ pre = NoPre
    /\ deleted = {}
    /\ revived = {}
    /\ nOps = 0
    /\ flags = [noTPM |-> FALSE, noEfivars |-> TRUE, outputJSON |-> FALSE]
    /\ exit = [code |-> -1, step |-> ""]
    /\ files = <<>>
    /\ assets = NoAssets
    /\ km = [sourceKernels |-> <<>>, targetKernels |-> <<>>]
    /\ fileWrites = <<>>
    /\ log = <<>>
    /\ reseals = <<>>
    /\ runs = 0
    /\ image = <<>>
    /\ call = <<>>
    /\ ta = <<>>

InitCopy ==
    /\ \E fs \in CopyFileSystems : lib = [fs |-> fs, n |-> 0, last |-> NoCopy]
    /\ pc = "copy"
    /\ InitUnused

\* MaybeUpdateFile(dst, src)
MaybeUpdateFileCall ==
    /\ pc = "copy" /\ lib.n < MaxCopies
    /\ \E dst \in CopyPaths, src \in CopyPaths, f \in CopyFailures :
         /\ src \in DOMAIN lib.fs => f[2] <= Len(lib.fs[src])
         /\ \E r \in {MaybeUpdateFileOp(lib.fs, dst, src, f[1], f[2])} :
             lib' = [fs |-> r.files, n |-> lib.n + 1,
                     last |-> [op |-> "MaybeUpdateFile", dst |-> dst, src |-> src, fail |-> f[1],
                               before |-> lib.fs, updated |-> r.updated, err |-> r.err,
                               wrote |-> r.wrote]]
    /\ UNCHANGED <<bmVars, runVars, image, call, ta>>

NextCopy == MaybeUpdateFileCall

SpecCopy == InitCopy /\ [][NextCopy]_vars

-----------------------------------------------------------------------------
(* Specification SpecCsv: a WriteShimFallback call *)

\* Number of entries, and of characters of a field
MaxCsvEntries == 2

MaxFieldLen == 1

CsvChars == {"a", ","}

RECURSIVE CsvFields(_)
CsvFields(n) ==
    IF n = 0 THEN {<<>>}
    ELSE CsvFields(n - 1) \cup {Append(f, c) : f \in {x \in CsvFields(n - 1) : Len(x) = n - 1}, c \in CsvChars}

CsvEntries ==
    [Filename : CsvFields(MaxFieldLen), Label : CsvFields(MaxFieldLen),
     Options : CsvFields(MaxFieldLen), Description : CsvFields(MaxFieldLen)]

RECURSIVE CsvInputs(_)
CsvInputs(n) ==
    IF n = 0 THEN {<<>>}
    ELSE CsvInputs(n - 1) \cup {Append(l, e) : l \in {x \in CsvInputs(n - 1) : Len(x) = n - 1}, e \in CsvEntries}

InitCsv ==
    /\ \E bootEntries \in CsvInputs(MaxCsvEntries) :
         \E failAt \in 0 .. Len(bootEntries) :
             lib = [entries |-> bootEntries, failAt |-> failAt, done |-> FALSE, out |-> <<>>, err |-> "nil"]
    /\ pc = "csv"
    /\ InitUnused

\* WriteShimFallback(w, entries)
WriteShimFallbackCall ==
    /\ pc = "csv" /\ ~lib.done
    /\ \E r \in {WriteShimFallback(<<>>, lib.entries, 1, lib.failAt)} :
         lib' = [lib EXCEPT !.done = TRUE, !.out = r.out, !.err = r.err]
    /\ UNCHANGED <<bmVars, runVars, image, call, ta>>

NextCsv == WriteShimFallbackCall

SpecCsv == InitCsv /\ [][NextCsv]_vars

-----------------------------------------------------------------------------
(* SpecKm: a KernelManager with its BootManager, driven through its methods *)

\* Number of KernelManager calls in one behaviour
MaxKmOps == 3

\* The Boot#### variables a KernelManager may find in the store: a foreign entry, the
\* entry of the newest kernel as CommitToBootLoader writes it, and an entry whose
\* device path names the older kernel in the target directory
KmBootVariables ==
    { [data |-> LoadOptionOf(CHOOSE e \in BootEntries : e.Options = ""), attrs |-> ForeignEntryAttrs],
      [data |-> LoadOptionOf(KernelBootEntry("kernel.efi-1.0-12-generic")), attrs |-> EntryAttributes],
      [data |-> LoadOptionOf([Filename |-> "kernel.efi-1.0-1-generic", Label |-> "Ubuntu 1.0-1",
                              Options |-> "", Description |-> ""]),
       attrs |-> EntryAttributes] }

\* The variable stores: at most MaxInitVars Boot#### variables and a BootOrder of at
\* most MaxOrderLen numbers, which need not exist
KmStores ==
    LET boots == UNION {[B -> KmBootVariables] : B \in {X \in SUBSET BootNums : Cardinality(X) <= MaxInitVars}}
    IN  { [n \in {BootVariableName(b) : b \in DOMAIN f} \cup {"BootOrder"} |->
              IF n = "BootOrder" THEN [data |-> EncodeBootOrder(o), attrs |-> ForeignOrderAttrs]
              ELSE f[CHOOSE b \in DOMAIN f : BootVariableName(b) = n]] :
          f \in boots, o \in SeqsUpTo(BootNums, MaxOrderLen) }

\* The file systems: any of the kernels in the source directory and in the target
\* directory of the ESP
KmFileSystems ==
    { MakeFs({<<Join(KernelSourceDir, k), KernelImage(k)>> : k \in S}
             \cup {<<Join(TargetDir, k), KernelImage(k)>> : k \in T}) :
      S \in SUBSET KernelNames, T \in SUBSET KernelNames }

\* What a call finds: the BootManager, the store, the files and the KernelManager
KmSnapshot ==
    [entries |-> entries, bootOrder |-> bootOrder, efivars |-> efivars, files |-> files, km |-> km]

\* NewBootManagerFromSystem (or no BootManager: the KernelManager then never reads the
\* store, and an empty BootOrder stands for all), then NewKernelManager
InitKm ==
    /\ efivars \in KmStores
    /\ files \in KmFileSystems
    /\ loaded \in BOOLEAN
    /\ loaded \/ efivars["BootOrder"].data = <<>>
    /\ entries = IF loaded THEN LoadEntries(efivars) ELSE <<>>
    /\ bootOrder = IF loaded THEN DecodeBootOrder(efivars["BootOrder"].data) ELSE <<>>
    /\ bootOrderAttrs = IF loaded THEN efivars["BootOrder"].attrs ELSE 0
    /\ km = NewKernelManagerOp(files)
    /\ lib = [n |-> 0, op |-> "none", ops |-> <<>>, err |-> FALSE, gone |-> {},
              before |-> [entries |-> entries, bootOrder |-> bootOrder, efivars |-> efivars,
                          files |-> files, km |-> km],
              first |-> [entries |-> entries, bootOrder |-> bootOrder, efivars |-> efivars,
                         files |-> files, km |-> km]]
    /\ pc = "km"
    /\ last = NoOp
    /\ writes = <<>>
    /\ pre = NoPre
    /\ deleted = {}
    /\ revived = {}
    /\ nOps = 0
    /\ flags = [noTPM |-> TRUE, noEfivars |-> ~loaded, outputJSON |-> FALSE]
    /\ exit = [code |-> -1, step |-> ""]
    /\ assets = NoAssets
    /\ fileWrites = <<>>
    /\ log = <<>>
    /\ reseals = <<>>
    /\ runs = 0
    /\ image = <<>>
    /\ call = <<>>
    /\ ta = <<>>

\* The variables no method of the KernelManager touches
kmFrame ==
    <<loaded, bootOrderAttrs, last, pre, deleted, revived, nOps, pc, flags, exit, assets, log,
      reseals, runs, image, call, ta>>

\* A caller makes the next call unless the last one returned an error
KmCanCall == pc = "km" /\ lib.n < MaxKmOps /\ ~lib.err

\* The record of a call: ops holds the calls made so far, gone the boot numbers
\* deleted, before what the call found, first what the first call found
KmCalled(op, err, gone) ==
    [n |-> lib.n + 1, op |-> op, ops |-> Append(lib.ops, op), err |-> err, gone |-> gone,
     before |-> KmSnapshot, first |-> lib.first]

\* km.InstallKernels()
KmInstallKernels ==
    /\ KmCanCall
    /\ \E failAt \in 1 .. Cardinality(KernelNames), failure \in CopyFailures :
         \E r \in {InstallKernelsOp(km, files, failAt, failure)} :
             /\ files' = r.files
             /\ km' = r.km
             /\ fileWrites' = r.wrote
             /\ lib' = KmCalled("InstallKernels", r.err, lib.gone)
    /\ writes' = <<>>
    /\ UNCHANGED <<entries, bootOrder, efivars, kmFrame>>

\* km.CommitToBootLoader()
KmCommitToBootLoader ==
    /\ KmCanCall
    /\ \E fail \in {"none", "set", "csv"} :
         \E r \in {CommitToBootLoaderOp(km, loaded, entries, bootOrder, bootOrderAttrs, efivars, files, fail)} :
             /\ entries' = r.bm.entries
             /\ bootOrder' = r.bm.bootOrder
             /\ efivars' = r.bm.efivars
             /\ writes' = r.bm.writes
             /\ files' = r.files
             /\ fileWrites' = r.wrote
             /\ lib' = KmCalled("CommitToBootLoader", r.err, lib.gone)
    /\ UNCHANGED <<km, kmFrame>>

\* km.RemoveObsoleteKernels()
KmRemoveObsoleteKernels ==
    /\ KmCanCall
    /\ \E fail \in {"none", "remove", "set"} :
         \E r \in {RemoveObsoleteKernelsOp(km, loaded, entries, bootOrder, efivars, files, fail)} :
             /\ entries' = r.bm.entries
             /\ bootOrder' = r.bm.bootOrder
             /\ efivars' = r.bm.efivars
             /\ writes' = r.bm.writes
             /\ files' = r.files
             /\ km' = r.km
             /\ fileWrites' = r.wrote
             /\ lib' = KmCalled("RemoveObsoleteKernels", r.err,
                                lib.gone \cup (DOMAIN entries \ DOMAIN r.bm.entries))
    /\ UNCHANGED kmFrame

NextKm ==
    \/ KmInstallKernels
    \/ KmCommitToBootLoader
    \/ KmRemoveObsoleteKernels

SpecKm == InitKm /\ [][NextKm]_vars

-----------------------------------------------------------------------------
(* SpecLink: getPolicyAuthKeyFromKernel (reseal.go), one system call at a time *)

\* Number of entries /dev/disk/by-partuuid may hold
MaxLinkEntries == 2

\* Paths are sequences of components; a link target is absolute or relative
LabelLink == <<"dev", "disk", "by-label", "cloudimg-rootfs-enc">>

PartuuidLink(name) == <<"dev", "disk", "by-partuuid", name>>

PartuuidNames == {ToString(1000 + i) : i \in 1 .. MaxLinkEntries}

Devices == {<<"dev", "sda1">>, <<"dev", "sdb1">>}

\* What the links may point to: a device, by its absolute path or as udev writes it;
\* another link, which makes chains and cycles; itself
LinkTargets ==
    { [abs |-> TRUE,  parts |-> <<"dev", "sda1">>],
      [abs |-> FALSE, parts |-> <<"..", "..", "sda1">>],
      [abs |-> FALSE, parts |-> <<"..", "..", "sdb1">>],
      [abs |-> TRUE,  parts |-> LabelLink],
      [abs |-> FALSE, parts |-> <<"1002">>],
      [abs |-> FALSE, parts |-> <<".", "1001">>],
      [abs |-> FALSE, parts |-> <<"..", "by-partuuid", "1001">>] }

\* The arrangements of /dev: each link is absent or points to one of the targets,
\* each device node is there or not
LinkFileSystems ==
    LET links == {LabelLink} \cup {PartuuidLink(n) : n \in PartuuidNames}
    IN  { [p \in L \cup D |-> IF p \in D THEN [kind |-> "device", target |-> [abs |-> TRUE, parts |-> <<>>]]
                              ELSE [kind |-> "link", target |-> t[p]]] :
          L \in SUBSET links, D \in (SUBSET Devices) \ {{}}, t \in [links -> LinkTargets] }

\* filepath.Clean of an absolute path: "." is dropped, ".." drops the component before it
RECURSIVE CleanFrom(_, _, _)
CleanFrom(parts, i, acc) ==
    IF i > Len(parts) THEN acc
    ELSE IF parts[i] = "." THEN CleanFrom(parts, i + 1, acc)
    ELSE IF parts[i] = ".."
    THEN CleanFrom(parts, i + 1, IF acc = <<>> THEN acc ELSE SubSeq(acc, 1, Len(acc) - 1))
    ELSE CleanFrom(parts, i + 1, Append(acc, parts[i]))

Clean(parts) == CleanFrom(parts, 1, <<>>)

\* filepath.Dir
Dir(path) == IF path = <<>> THEN path ELSE SubSeq(path, 1, Len(path) - 1)

\* appFs.Readlink: the target of a link, EINVAL for what is no link, ENOENT otherwise
Readlink(fs, path) ==
    IF path \notin DOMAIN fs THEN [err |-> "ENOENT", target |-> [abs |-> TRUE, parts |-> <<>>]]
    ELSE IF fs[path].kind # "link" THEN [err |-> "EINVAL", target |-> [abs |-> TRUE, parts |-> <<>>]]
    ELSE [err |-> "nil", target |-> fs[path].target]

\* resolveLink: one pass of the for loop: it returns path, returns an error, or goes
\* on with the target of the link
resolveLinkStep(fs, path) ==
    With(Readlink(fs, path), LAMBDA r :
        IF r.err = "EINVAL" THEN [then |-> "return", path |-> path]
        ELSE IF r.err # "nil" THEN [then |-> "error", path |-> <<>>]
        ELSE [then |-> "loop",
              path |-> IF r.target.abs THEN r.target.parts ELSE Clean(Dir(path) \o r.target.parts)])

\* os.ReadDir("/dev/disk/by-partuuid"): the names of the entries, sorted
RECURSIVE SortedNames(_)
SortedNames(S) ==
    IF S = {} THEN <<>>
    ELSE LET first == CHOOSE n \in S : \A m \in S : \E i, j \in 1 .. MaxLinkEntries :
                                          n = ToString(1000 + i) /\ m = ToString(1000 + j) /\ i <= j
         IN  <<first>> \o SortedNames(S \ {first})

\* lib.odd tells whether the number of passes the loops of resolveLink have made is
\* odd, so that a pass over a link to itself is a step like every other pass
InitLink ==
    /\ \E fs \in LinkFileSystems :
         lib = [fs |-> fs, at |-> "resolveLabel", path |-> LabelLink, devPath |-> <<>>, ents |-> <<>>,
                i |-> 0, keyPath |-> <<>>, err |-> "", odd |-> FALSE]
    /\ pc = "link"
    /\ InitUnused

\* getPolicyAuthKeyFromKernel returns
LinkReturn(err) == [lib EXCEPT !.at = "returned", !.err = err]

\* The walk over /dev/disk/by-partuuid goes on with the next entry, if any
LinkNextEntry ==
    IF lib.i >= Len(lib.ents) THEN LinkReturn("cannot read key from kernel")
    ELSE [lib EXCEPT !.i = lib.i + 1, !.path = PartuuidLink(lib.ents[lib.i + 1])]

\* resolveLink("/dev/disk/by-label/cloudimg-rootfs-enc"): one pass of its loop
ResolveLabel ==
    /\ pc = "link" /\ lib.at = "resolveLabel"
    /\ \E r \in {resolveLinkStep(lib.fs, lib.path)} :
         lib' = IF r.then = "loop" THEN [lib EXCEPT !.path = r.path, !.odd = ~lib.odd]
                ELSE IF r.then = "error" THEN LinkReturn("cannot resolve device symlink")
                ELSE [lib EXCEPT !.devPath = r.path, !.at = "KeyctlLink"]
    /\ UNCHANGED <<bmVars, runVars, image, call, ta>>

\* unixKeyctlInt(KEYCTL_LINK, ...)
KeyctlLink ==
    /\ pc = "link" /\ lib.at = "KeyctlLink"
    /\ \E ok \in BOOLEAN :
         lib' = IF ok THEN [lib EXCEPT !.at = "GetAuxiliaryKey"]
                ELSE LinkReturn("cannot link user keyring into process keyring")
    /\ UNCHANGED <<bmVars, runVars, image, call, ta>>

\* sbGetAuxiliaryKeyFromKernel(keyringPrefix, devPath, false)
GetAuxiliaryKey ==
    /\ pc = "link" /\ lib.at = "GetAuxiliaryKey"
    /\ \E answer \in KeyAnswers :
         lib' = IF answer = "found" THEN LinkReturn("nil")
                ELSE IF answer = "ErrKernelKeyNotFound" THEN [lib EXCEPT !.at = "ReadDir"]
                ELSE LinkReturn("cannot read key from kernel")
    /\ UNCHANGED <<bmVars, runVars, image, call, ta>>

\* appFs.ReadDir("/dev/disk/by-partuuid")
ReadDirPartuuid ==
    /\ pc = "link" /\ lib.at = "ReadDir"
    /\ \E readable \in BOOLEAN :
         \E ents \in {SortedNames({n \in PartuuidNames : PartuuidLink(n) \in DOMAIN lib.fs})} :
             lib' = IF ~readable \/ ents = <<>> THEN LinkReturn("cannot read key from kernel")
                    ELSE [lib EXCEPT !.at = "resolveEntry", !.ents = ents, !.i = 1,
                                     !.path = PartuuidLink(ents[1])]
    /\ UNCHANGED <<bmVars, runVars, image, call, ta>>

\* resolveLink(path) for the entry at hand: one pass of its loop
ResolveEntry ==
    /\ pc = "link" /\ lib.at = "resolveEntry"
    /\ \E r \in {resolveLinkStep(lib.fs, lib.path)} :
         lib' = IF r.then = "loop" THEN [lib EXCEPT !.path = r.path, !.odd = ~lib.odd]
                ELSE IF r.then = "return" /\ r.path = lib.devPath
                THEN [lib EXCEPT !.at = "GetAuxiliaryKeyAgain", !.keyPath = PartuuidLink(lib.ents[lib.i])]
                ELSE LinkNextEntry
    /\ UNCHANGED <<bmVars, runVars, image, call, ta>>

\* sbGetAuxiliaryKeyFromKernel(keyringPrefix, path, false)
GetAuxiliaryKeyAgain ==
    /\ pc = "link" /\ lib.at = "GetAuxiliaryKeyAgain"
    /\ \E answer \in KeyAnswers :
         lib' = LinkReturn(IF answer = "found" THEN "nil" ELSE "cannot read key from kernel")
    /\ UNCHANGED <<bmVars, runVars, image, call, ta>>

NextLink ==
    \/ ResolveLabel
    \/ KeyctlLink
    \/ GetAuxiliaryKey
    \/ ReadDirPartuuid
    \/ ResolveEntry
    \/ GetAuxiliaryKeyAgain

\* The call is never suspended for ever: a step that can be taken is taken
SpecLink == InitLink /\ [][NextLink]_vars /\ WF_vars(NextLink)

-----------------------------------------------------------------------------
(* Helpers of the properties *)

\* s without every element that occurred at an earlier position
RECURSIVE KeepFirstFrom(_, _)
KeepFirstFrom(s, i) ==
    IF i > Len(s) THEN <<>>
    ELSE (IF \E j \in 1 .. (i - 1) : s[j] = s[i] THEN <<>> ELSE <<s[i]>>) \o KeepFirstFrom(s, i + 1)

\* head ++ old, restricted to E, first occurrences only
ExpectedOrder(head, old, E) ==
    KeepFirstFrom(SelectSeq(head \o old, LAMBDA n : n \in E), 1)

\* The boot numbers whose Boot#### variable is in the store
StoredBootNums(ev) == {n \in BootNums : BootVariableName(n) \in DOMAIN ev}

\* The numbers the BootOrder variable of the store holds (none when it is absent)
StoredBootOrder(ev) ==
    IF "BootOrder" \in DOMAIN ev THEN DecodeBootOrder(ev["BootOrder"].data) ELSE <<>>

Did(op) == last.op = op /\ ~last.err

-----------------------------------------------------------------------------
(* Properties of the BootManager, checked under Spec *)

\* C4: after PrependAndSetBootOrder(head) succeeds on a BootManager whose cached order
\* is old and whose entry set is E, the cached order and the little-endian 16-bit
\* decoding of the payload written to BootOrder both equal head ++ old with every
\* number not in E removed and only the first occurrence of each number kept.
C4_PrependedOrder ==
    Did("PrependAndSetBootOrder") =>
        /\ bootOrder = ExpectedOrder(last.arg, pre.bootOrder, DOMAIN pre.entries)
        /\ Len(writes) = 1
        /\ writes[1].name = "BootOrder"
        /\ DecodeBootOrder(writes[1].data) = ExpectedOrder(last.arg, pre.bootOrder, DOMAIN pre.entries)

\* C4 witness: the case old = [1,2], E = {0,1}, head = [0], giving [0,1]
C4_Witness ==
    /\ Did("PrependAndSetBootOrder")
    /\ pre.bootOrder = <<1, 2>>
    /\ DOMAIN pre.entries = {0, 1}
    /\ last.arg = <<0>>
    /\ bootOrder = <<0, 1>>
    /\ efivars["BootOrder"].data = <<0, 0, 1, 0>>

\* C5 as claimed: after every BootManager operation that writes a variable
\* (FindOrCreateEntry, DeleteEntry, PrependAndSetBootOrder), every number in the
\* BootOrder variable names a Boot#### variable that exists.
C5_Original ==
    (last.op \in {"FindOrCreateEntry", "DeleteEntry", "PrependAndSetBootOrder"} /\ writes # <<>>) =>
        Elems(StoredBootOrder(efivars)) \subseteq StoredBootNums(efivars)

\* C5 amended: after every successful PrependAndSetBootOrder, every number in the
\* BootOrder variable names a Boot#### variable that exists.
C5_OrderNamesExistingAfterCommit ==
    Did("PrependAndSetBootOrder") =>
        Elems(StoredBootOrder(efivars)) \subseteq StoredBootNums(efivars)

\* C5 witness: a commit that dropped a number without a variable from BootOrder
C5_Witness ==
    /\ Did("PrependAndSetBootOrder")
    /\ ~(Elems(StoredBootOrder(pre.efivars)) \subseteq StoredBootNums(pre.efivars))
    /\ StoredBootOrder(efivars) # <<>>

\* C6 as claimed: after DeleteEntry(n) succeeds, Boot{n} does not exist, and no later
\* PrependAndSetBootOrder writes a BootOrder that contains n.
C6_Original ==
    /\ Did("DeleteEntry") => BootVariableName(last.arg) \notin DOMAIN efivars
    /\ Did("PrependAndSetBootOrder") => Elems(DecodeBootOrder(writes[1].data)) \cap deleted = {}

\* C6 amended: after DeleteEntry(n) succeeds, Boot{n} does not exist, and no later
\* PrependAndSetBootOrder writes a BootOrder that contains n, as long as no
\* FindOrCreateEntry has created number n again.
C6_DeletedStaysOut ==
    /\ Did("DeleteEntry") =>
            /\ BootVariableName(last.arg) \notin DOMAIN efivars
            /\ last.arg \notin Elems(bootOrder)
    /\ Did("PrependAndSetBootOrder") =>
            Elems(DecodeBootOrder(writes[1].data)) \cap (deleted \ revived) = {}

\* C6 witness: a commit whose head names a deleted number, which is left out
C6_Witness ==
    /\ Did("PrependAndSetBootOrder")
    /\ \E n \in deleted \ revived : n \in Elems(last.arg) /\ n \in Elems(StoredBootOrder(pre.efivars))
    /\ writes[1].data # <<>>

\* The duplicates FindOrCreateEntry had to find in its last call
LastDuplicates == DuplicatesOf(pre.entries, LoadOptionOf(last.arg), EntryAttributes)

\* C7 as claimed: FindOrCreateEntry for an entry whose encoded load option and
\* attributes equal those of an existing entry returns that entry's number, writes no
\* variable and leaves the entry set unchanged.
C7_Original ==
    (last.op = "FindOrCreateEntry" /\ last.fail # "dp" /\ LastDuplicates # {}) =>
        /\ ~last.err
        /\ last.ret \in LastDuplicates
        /\ writes = <<>>
        /\ entries = pre.entries
        /\ efivars = pre.efivars

\* C8: when no existing entry matches (and a number is free and no service fails),
\* FindOrCreateEntry writes the new load option to the Boot#### variable with the
\* lowest number in 0..maxBootEntries-1 that is not in the entry set, with attributes
\* NonVolatile|BootserviceAccess|RuntimeAccess, records it and returns that number.
C8_CreatesLowestFree ==
    (last.op = "FindOrCreateEntry" /\ LastDuplicates = {}) =>
        /\ (last.fail = "none" /\ BootNums \ DOMAIN pre.entries # {}) => ~last.err
        /\ ~last.err =>
            /\ last.ret \in BootNums \ DOMAIN pre.entries
            /\ \A j \in 0 .. (last.ret - 1) : j \in DOMAIN pre.entries
            /\ writes = <<WriteOf(BootVariableName(last.ret), LoadOptionOf(last.arg), EntryAttributes)>>
            /\ efivars = [n \in DOMAIN pre.efivars \cup {BootVariableName(last.ret)} |->
                            IF n = BootVariableName(last.ret)
                            THEN [data |-> LoadOptionOf(last.arg), attrs |-> EntryAttributes]
                            ELSE pre.efivars[n]]
            /\ DOMAIN entries = DOMAIN pre.entries \cup {last.ret}
            /\ entries[last.ret].Data = LoadOptionOf(last.arg)
            /\ entries[last.ret].Attributes = EntryAttributes
            /\ \A n \in DOMAIN pre.entries : entries[n] = pre.entries[n]

\* C8 witness: with Boot0001 present, Boot0000 was created, and now Boot0002 is
C8_Witness ==
    /\ Did("FindOrCreateEntry")
    /\ DOMAIN pre.entries = {0, 1}
    /\ last.ret = 2
    /\ efivars[BootVariableName(0)].data # efivars[BootVariableName(2)].data
    /\ BootVariableName(2) = "Boot0002"

\* C10 as claimed: when a BootManager is loaded, a Boot#### variable whose payload
\* fails load-option validation is not recorded in the entry set.
C10_Original ==
    Did("NewBootManagerFromSystem") =>
        \A n \in StoredBootNums(efivars) :
            ~IsValidLoadOption(efivars[BootVariableName(n)].data) => n \notin DOMAIN entries

\* C10 amended: when a BootManager is loaded, a Boot#### variable whose payload fails
\* load-option validation is logged and still recorded in the entry set, with its
\* payload and attributes and an empty load option; loading succeeds whenever the
\* variables are supported and BootOrder can be read, and records every Boot####
\* variable of the store.
C10_InvalidEntryIsRecorded ==
    last.op = "NewBootManagerFromSystem" =>
        /\ last.err <=> ~(last.arg /\ "BootOrder" \in DOMAIN efivars)
        /\ ~last.err =>
            /\ DOMAIN entries = StoredBootNums(efivars)
            /\ \A n \in DOMAIN entries :
                /\ entries[n].BootNumber = n
                /\ entries[n].Data = efivars[BootVariableName(n)].data
                /\ entries[n].Attributes = efivars[BootVariableName(n)].attrs
                /\ entries[n].LoadOption =
                        IF IsValidLoadOption(entries[n].Data) THEN entries[n].Data ELSE <<>>

\* C10 witness: a load that met an invalid and a valid Boot#### variable
C10_Witness ==
    /\ Did("NewBootManagerFromSystem")
    /\ \E n, m \in DOMAIN entries :
        /\ ~IsValidLoadOption(entries[n].Data)
        /\ IsValidLoadOption(entries[m].Data)

-----------------------------------------------------------------------------
(* Properties of a run of nullbootctl (SpecRun) *)

\* The positions of the log that hold the event
PositionsOf(l, kind, what) == {i \in 1 .. Len(l) : l[i] = Event(kind, what)}

\* The positions of the log at which a file of the ESP was written or removed by
\* InstallShim or the KernelManager, or a UEFI variable was set
Mutations(l) == {i \in 1 .. Len(l) : l[i].kind \in {"fileWrite", "varWrite"}}

\* The log from the last start of step on
SinceStep(l, step) ==
    LET at == PositionsOf(l, "step", step)
    IN  IF at = {} THEN <<>>
        ELSE SubSeq(l, CHOOSE i \in at : \A j \in at : j <= i, Len(l))

\* The boot images of the ESP: the shim of the vendor directory and the kernels
EspShimTrusted(fs, profile) ==
    EspShimPath \in DOMAIN fs => fs[EspShimPath] \in Elems(profile.roots)

EspKernelsTrusted(fs, profile) ==
    \A k \in ReadDirKernels(fs, TargetDir) : fs[Join(TargetDir, k)] \in Elems(profile.nexts)

\* C1 (as the specification states it): once the pre-install ResealKey has
\* succeeded, and until the post-cleanup reseal, at every point of the run - also
\* when a step fails and the run stops - the shim of the ESP and every kernel of
\* the ESP target directory hold an image of the pre-install profile.
C1_Original ==
    (Len(reseals) = 1 /\ reseals[1].kind = "ok") =>
        /\ EspShimTrusted(files, reseals[1].profile)
        /\ EspKernelsTrusted(files, reseals[1].profile)

\* C2 (as the specification states it): whenever an image opened for the profile is
\* not trusted at Close, ResealKey returns the error that names those paths, and
\* neither updates the policy nor writes the sealed key.
C2_Original ==
    \A i \in 1 .. Len(reseals) :
        reseals[i].untrusted # <<>> =>
            /\ reseals[i].err
            /\ reseals[i].kind = "untrusted"
            /\ Elems(reseals[i].names) = Elems(reseals[i].untrusted)
            /\ ~reseals[i].updated /\ ~reseals[i].written

\* C2 (corrected): whenever an image opened for the profile is not trusted at
\* Close, ResealKey returns an error, updates no policy and leaves the sealed key
\* file as it was; the error is the one that names exactly those paths unless the
\* profile computation failed or left a file open, which are reported instead.
\* Hence a policy is only ever updated from a profile whose images were all trusted.
C2_UntrustedNeverResealed ==
    \A i \in 1 .. Len(reseals) :
        /\ reseals[i].untrusted # <<>> =>
              /\ reseals[i].err
              /\ ~reseals[i].updated /\ ~reseals[i].written
              /\ reseals[i].keyAfter = reseals[i].keyBefore
              /\ reseals[i].kind \in {"untrusted", "leaked", "profile"}
              /\ reseals[i].kind = "untrusted" => Elems(reseals[i].names) = Elems(reseals[i].untrusted)
              /\ (reseals[i].nOpen = 0 /\ reseals[i].kind # "profile") => reseals[i].kind = "untrusted"
        /\ (reseals[i].updated \/ reseals[i].written) => reseals[i].untrusted = <<>>

\* C2 witness: a ResealKey call that opened an untrusted image and named it
C2_Witness ==
    \E i \in 1 .. Len(reseals) :
        /\ reseals[i].untrusted # <<>>
        /\ reseals[i].kind = "untrusted"
        /\ reseals[i].names # <<>>

\* C3: in every run, every ESP write and every UEFI variable write comes after the
\* start of the initial ResealKey, and the final ResealKey starts after every ESP
\* write, every UEFI variable write and the RemoveObsolete and Save of the trusted
\* assets; a run without resealing calls ResealKey never.
C3_ResealsAroundMutations ==
    LET initial == PositionsOf(log, "step", "ResealInitial")
        final   == PositionsOf(log, "step", "ResealFinal")
        drops   == PositionsOf(log, "assets", "RemoveObsolete")
        saves   == PositionsOf(log, "assets", "Save")
    IN  IF flags.noTPM THEN initial = {} /\ final = {}
        ELSE /\ \A m \in Mutations(log) : \E r \in initial : r < m
             /\ \A f \in final :
                   /\ \E r \in initial : r < f
                   /\ \A m \in Mutations(log) : m < f
                   /\ \E d \in drops : \E sv \in saves : d < sv /\ sv < f
             /\ Cardinality(initial) <= 1 /\ Cardinality(final) <= 1

\* C3 witness: a run with resealing that wrote files and variables and has made
\* both ResealKey calls
C3_Witness ==
    /\ ~flags.noTPM
    /\ pc = "DumpJSON"
    /\ Len(reseals) = 2
    /\ \E m \in Mutations(log) : log[m].kind = "fileWrite"
    /\ \E m \in Mutations(log) : log[m].kind = "varWrite"

\* The second invocation has installed the kernels and committed them again, on
\* the state the first, complete, invocation left
RepeatedInstall == runs > 1 /\ pre.complete /\ pc = "RemoveObsoleteKernels"

\* C9 (as the specification states it): repeating install and commit on an
\* installed and committed state writes no file and no UEFI variable.
C9_Original ==
    RepeatedInstall => \A i \in 1 .. Len(SinceStep(log, "InstallKernels")) :
                          SinceStep(log, "InstallKernels")[i].kind \notin {"fileWrite", "varWrite"}

\* C9 (corrected): repeating install and commit on an installed and committed
\* state writes no kernel file and no Boot#### variable; it writes BootOrder and
\* the fallback CSV again, with what they held, so that the variable store and
\* the files of the target directory are as before.
C9_RepeatRewritesOnlyOrderAndCsv ==
    RepeatedInstall =>
        /\ \A i \in 1 .. Len(SinceStep(log, "InstallKernels")) :
              LET e == SinceStep(log, "InstallKernels")[i]
              IN  /\ e.kind = "fileWrite" => e.what = CsvPath
                  /\ e.kind = "varWrite" => e.what = "BootOrder"
        /\ efivars = pre.efivars
        /\ \A k \in KernelNames :
              /\ Join(TargetDir, k) \in DOMAIN files <=> Join(TargetDir, k) \in DOMAIN pre.files
              /\ Join(TargetDir, k) \in DOMAIN files => files[Join(TargetDir, k)] = pre.files[Join(TargetDir, k)]
        /\ files[CsvPath] = pre.files[CsvPath]

\* C9 witness: the second invocation, with a BootManager and two kernels, has
\* committed again and wrote BootOrder in doing so
C9_Witness ==
    /\ RepeatedInstall
    /\ loaded
    /\ Len(km.sourceKernels) = 2
    /\ \E i \in 1 .. Len(writes) : writes[i].name = "BootOrder"
    /\ CsvPath \in Elems(fileWrites)

-----------------------------------------------------------------------------
(* Properties of efiImageFile, checked under SpecImage *)

\* C11 (as the specification states it): a ReadAt call that reads a block whose
\* hash differs from the leaf hash recorded on its first read returns a read error:
\* no successful read, no short read, no end-of-file.
C11_Original ==
    (image.last.op = "ReadAt" /\ image.last.mismatch) =>
        image.last.err \notin {"nil", "EOF", "panic"}

C13_LeafHashesStable ==
    image # <<>> /\ image.changes = 0 =>
        /\ \A k \in DOMAIN image.f.leafHashes :
              image.f.leafHashes[k] \in {<<>>, LeafHashes(image.atOpen)[k]}
        /\ image.last.op = "Close" =>
              /\ image.f.leafHashes = LeafHashes(image.atOpen)
              /\ RootHash(image.atOpen) \in Elems(image.assets.loaded) =>
                    image.ctx.failedPaths = image.before.ctx.failedPaths

\* C13 witness: a trusted file of two blocks, the second one short, is closed after
\* two reads that overlap in the second block, and is not added to failedPaths
C13_Witness ==
    /\ image.last.op = "Close"
    /\ image.changes = 0
    /\ image.reads = 2
    /\ image.atOpen = <<1, 2, 3, 4>>
    /\ image.before.f.leafHashes[1] = <<>>
    /\ image.before.f.leafHashes[2] # <<>>
    /\ RootHash(image.atOpen) \in Elems(image.assets.loaded)
    /\ image.ctx.failedPaths = <<>>

\* The bytes of a content from offset off, at most len of them
BytesAt(content, off, len) == SubSeq(content, off + 1, Min(off + len, Len(content)))

\* C14 (as the specification states it): on a file that does not change, ReadAt
\* returns normally for every offset and every buffer length: with the bytes of
\* the file from the offset, up to the buffer length or the end of the file, when
\* the offset is before the end, and with no byte and end-of-file otherwise.
C14_Original ==
    (image.last.op = "ReadAt" /\ image.changes = 0) =>
        /\ image.last.err # "panic"
        /\ image.last.off < image.f.sz =>
              /\ image.last.err = "nil"
              /\ image.last.data = BytesAt(image.atOpen, image.last.off, image.last.len)
        /\ image.last.off >= image.f.sz =>
              /\ image.last.err = "EOF"
              /\ image.last.n = 0

\* ReadAt panics exactly when the offset is behind the end of the file and inside
\* its short last block
C14_PanicsBehindEndInLastBlock ==
    (image.last.op = "ReadAt" /\ image.changes = 0) =>
        /\ image.last.err = "panic" <=>
              /\ image.last.off > image.f.sz
              /\ image.last.off < NumBlocks(image.f.sz) * hashBlockSize
        /\ (image.last.err # "panic" /\ image.last.off < image.f.sz) =>
              /\ image.last.err = "nil"
              /\ image.last.data = BytesAt(image.atOpen, image.last.off, image.last.len)
        /\ (image.last.err # "panic" /\ image.last.off >= image.f.sz) =>
              /\ image.last.err = "EOF"
              /\ image.last.n = 0

-----------------------------------------------------------------------------
(* Properties of ResealKey, checked under SpecReseal *)

\* The positions of the calls of svc in a trace of calls
CallsOf(calls, svc) == {i \in 1 .. Len(calls) : calls[i].svc = svc}

\* The images opened in the call whose root hash the assets do not trust
UntrustedOpened == FailedPaths(call.assets, call.fs, call.result.opened)

\* C15 as stated: whenever an image file opened during the PCR profile computation
\* is still open when the computation returns, ResealKey fails with the leaked-files
\* error, and neither updates the policy nor writes the sealed key
C15_Original ==
    (call.done /\ call.result.nOpen # 0)
        => /\ call.result.kind = "leaked"
           /\ ~call.result.updated /\ ~call.result.written

\* C15: when the PCR profile computation returns without error and an image file it
\* opened is still open, ResealKey fails with the leaked-files error, whether or
\* not an image failed the trust check, and no service is called afterwards;
\* whenever a file is left open the policy is not updated and the sealed key is
\* not written
C15_LeakedFilesFirst ==
    (call.done /\ call.result.nOpen # 0)
        => /\ call.result.err
           /\ call.result.kind \in {"leaked", "profile"}
           /\ (call.result.kind = "profile") = (call.fail = "leakprofile" \/ \E p \in Elems(ResealKernels(call.km)) \cup Elems(ResealRoots(call.fs)) : p \notin DOMAIN call.fs)
           /\ ~call.result.updated /\ ~call.result.written
           /\ call.result.files = call.fs
           /\ \A s \in Elems(SealSteps) : CallsOf(call.result.calls, s) = {}

\* A call in which the profile is computed without error, an image is left open
\* and another image has failed the trust check
C15_Witness ==
    /\ call.done /\ call.result.nOpen # 0
    /\ call.result.kind = "leaked"
    /\ UntrustedOpened # <<>>

\* The phase of ResealKey a service belongs to
Phase(svc) ==
    CASE svc \in {"resolveLink", "KeyctlLink", "GetAuxiliaryKeyFromKernel", "ReadDir"} -> 1
      [] svc \in {"AddBootManagerProfile", "AddSecureBootPolicyProfile", "Open"} -> 2
      [] svc = "ReadSealedKeyObjectFromFile" -> 3
      [] svc = "ConnectToDefaultTPM" -> 4
      [] svc = "UpdatePCRProtectionPolicy" -> 5
      [] svc = "WriteAtomic" -> 6

\* C16 as stated: the TPM connection is opened before the sealed key object is
\* loaded, and both before any boot image is opened for the profile
C16_Original ==
    call.done =>
        LET calls == call.result.calls
        IN  \A i \in CallsOf(calls, "ConnectToDefaultTPM") :
                /\ \A j \in CallsOf(calls, "ReadSealedKeyObjectFromFile") : i < j
                /\ \A j \in CallsOf(calls, "Open") : i < j

\* C16: when the sealed-key file exists, ResealKey retrieves the auxiliary key,
\* computes the PCR profile (opening the boot images), checks that no image file
\* is left open, checks that no path failed the trust check, loads the sealed key
\* object, opens the TPM connection, updates the policy and writes atomically, in
\* this order: the TPM connection is opened after every boot image was opened,
\* and right after the sealed key object was loaded
C16_StepsInOrder ==
    call.done =>
        LET calls == call.result.calls
        IN  /\ \A i, j \in 1 .. Len(calls) : i < j => Phase(calls[i].svc) <= Phase(calls[j].svc)
            /\ \A i, j \in 1 .. Len(calls) :
                   (i < j /\ Phase(calls[i].svc) >= 3) => Phase(calls[i].svc) < Phase(calls[j].svc)
            /\ \A i \in 1 .. Len(calls) :
                   Phase(calls[i].svc) >= 4 => (i > 1 /\ Phase(calls[i - 1].svc) = Phase(calls[i].svc) - 1)
            /\ (CallsOf(calls, "ReadSealedKeyObjectFromFile") # {})
                   => /\ CallsOf(calls, "AddBootManagerProfile") # {}
                      /\ CallsOf(calls, "AddSecureBootPolicyProfile") # {}
                      /\ call.result.nOpen = 0
                      /\ UntrustedOpened = <<>>
            /\ call.result.kind \in {"leaked", "untrusted"}
                   => \A i \in 1 .. Len(calls) : Phase(calls[i].svc) <= 2
            /\ call.result.written <=> CallsOf(calls, "WriteAtomic") # {} /\ ~call.result.err

\* A call that reseals: boot images are opened, then the TPM connection is
\* opened, and the sealed key is written
C16_Witness ==
    /\ call.done /\ call.result.written
    /\ \E i \in CallsOf(call.result.calls, "Open") :
           \E j \in CallsOf(call.result.calls, "ConnectToDefaultTPM") : i < j

\* C17: when the sealed-key file does not exist ResealKey returns success and
\* calls none of its services, and no file is written
C17_NoKeyNoServices ==
    (call.done /\ KeyPath \notin DOMAIN call.fs)
        => /\ ~call.result.err
           /\ call.result.calls = <<>>
           /\ call.result.opened = <<>>
           /\ ~call.result.updated /\ ~call.result.written
           /\ call.result.files = call.fs

\* A call without the sealed-key file, with shims and kernels on the disk
C17_Witness ==
    /\ call.done /\ KeyPath \notin DOMAIN call.fs
    /\ ResealRoots(call.fs) # <<>>
    /\ call.km.sourceKernels # <<>>

\* The load sequences of the call, as C18 words them
ExpectedChains ==
    LET roots == SelectSeq(<<ShimSourcePath, EspShimPath>>, LAMBDA p : p \in DOMAIN call.fs)
        nexts == [i \in 1 .. Len(call.km.sourceKernels) + Len(call.km.targetKernels) |->
                     IF i <= Len(call.km.sourceKernels)
                     THEN Join(KernelSourceDir, call.km.sourceKernels[i])
                     ELSE Join(TargetDir, call.km.targetKernels[i - Len(call.km.sourceKernels)])]
    IN  [i \in 1 .. Len(roots) |-> [image |-> roots[i], next |-> nexts]]

\* C18: the PCR 4 and the PCR 7 profile builders are each called at most once,
\* with the same load sequences: one root per existing shim in the order source
\* shim, ESP shim, every root with the source kernels in source order followed
\* by the target kernels in target order as its Next
C18_LoadSequences ==
    call.done =>
        /\ \A svc \in {"AddBootManagerProfile", "AddSecureBootPolicyProfile"} :
               /\ Cardinality(CallsOf(call.result.calls, svc)) <= 1
               /\ \A i \in CallsOf(call.result.calls, svc) : call.result.calls[i].arg = ExpectedChains
        /\ call.result.written => call.result.opened = LoadSequences(ResealRoots(call.fs), ResealKernels(call.km))
                                                       \o LoadSequences(ResealRoots(call.fs), ResealKernels(call.km))

\* A call in which both builders are called, with two shims, and source and
\* target kernels that differ
C18_Witness ==
    /\ call.done
    /\ CallsOf(call.result.calls, "AddBootManagerProfile") # {}
    /\ CallsOf(call.result.calls, "AddSecureBootPolicyProfile") # {}
    /\ Len(ExpectedChains) = 2
    /\ Len(call.km.sourceKernels) = 2
    /\ call.km.targetKernels # <<>>
    /\ call.km.targetKernels # call.km.sourceKernels

\* The entries of /dev/disk/by-partuuid that resolve to the by-label device
MatchingEntries == SelectSeq(call.env.partuuid, LAMBDA e : e.target = call.env.label)

\* C19: the user keyring is linked before any key request; the first request is
\* for the device the by-label link resolves to; there is a second request only
\* when the first answered ErrKernelKeyNotFound, it is the last one, and it is
\* for the first by-partuuid symlink that resolves to the same device; when no
\* symlink matches or the second request fails ResealKey fails with the key error
\* and nothing is written
C19_AuxiliaryKeyRetrieval ==
    (call.done /\ KeyPath \in DOMAIN call.fs) =>
        LET calls == call.result.calls
            reqs  == CallsOf(calls, "GetAuxiliaryKeyFromKernel")
            Nth(n) == CHOOSE i \in reqs : Cardinality({j \in reqs : j < i}) = n - 1
            retried == call.env.label # "" /\ call.env.keyctl /\ call.env.first = "ErrKernelKeyNotFound"
                       /\ call.env.readable /\ MatchingEntries # <<>>
        IN  /\ \A i \in reqs : \E j \in CallsOf(calls, "KeyctlLink") : j < i
            /\ Cardinality(CallsOf(calls, "KeyctlLink")) <= 1
            /\ reqs # {} => calls[Nth(1)].arg = call.env.label
            /\ Cardinality(reqs) = (IF retried THEN 2 ELSE IF call.env.label # "" /\ call.env.keyctl THEN 1 ELSE 0)
            /\ retried => calls[Nth(2)].arg = Join(PartuuidDir, MatchingEntries[1].name)
            /\ (call.env.first = "ErrKernelKeyNotFound" /\ (~retried \/ call.env.retry # "found"))
                   => /\ call.result.err /\ call.result.kind = "authkey"
                      /\ ~call.result.updated /\ ~call.result.written
                      /\ call.result.files = call.fs
                      /\ \A i \in 1 .. Len(calls) : Phase(calls[i].svc) = 1
            /\ (retried /\ call.env.retry = "found") => call.result.kind # "authkey"

\* A call in which the first request answers ErrKernelKeyNotFound, two symlinks
\* resolve to the device, after one that does not, and the second request finds
\* the key
C19_Witness ==
    /\ call.done /\ KeyPath \in DOMAIN call.fs
    /\ call.env.first = "ErrKernelKeyNotFound"
    /\ Len(MatchingEntries) = 2
    /\ call.env.partuuid[1].target # call.env.label
    /\ Cardinality(CallsOf(call.result.calls, "GetAuxiliaryKeyFromKernel")) = 2
    /\ call.result.written

-----------------------------------------------------------------------------
(* Properties of TrustedAssets, checked under SpecAssets *)

\* Number of occurrences of h in s
Occurrences(s, h) == Cardinality({i \in 1 .. Len(s) : s[i] = h})

\* s is t without some of its elements, the others in the order of t
RECURSIVE IsSubList(_, _)
IsSubList(s, t) ==
    IF s = <<>> THEN TRUE
    ELSE IF t = <<>> THEN FALSE
    ELSE IF Head(s) = Head(t) THEN IsSubList(Tail(s), Tail(t))
    ELSE IsSubList(s, Tail(t))

\* The call made last, and the one before it
LastCall == IF ta.ops = <<>> THEN "" ELSE ta.ops[Len(ta.ops)]

CallBeforeLast == IF Len(ta.ops) < 2 THEN "" ELSE ta.ops[Len(ta.ops) - 1]

\* C20: RemoveObsolete leaves in loaded the members of loaded that occur in
\* newAssets, as often as they were and in the order they were, and leaves
\* newAssets as it was, duplicates included; a Save that follows RemoveObsolete
\* persists only hashes of newAssets; a RemoveObsolete that follows
\* RemoveObsolete changes nothing
C20_RemoveObsolete ==
    /\ LastCall = "RemoveObsolete"
           => /\ ta.assets.newAssets = ta.before.newAssets
              /\ IsSubList(ta.assets.loaded, ta.before.loaded)
              /\ \A h \in AssetHashes :
                     Occurrences(ta.assets.loaded, h)
                         = IF h \in Elems(ta.before.newAssets) THEN Occurrences(ta.before.loaded, h) ELSE 0
    /\ (LastCall = "Save" /\ CallBeforeLast = "RemoveObsolete")
           => /\ ta.disk.exists
              /\ ta.disk.hashes = ta.assets.loaded
              /\ Elems(ta.disk.hashes) \subseteq Elems(ta.assets.newAssets)
    /\ (LastCall = "RemoveObsolete" /\ CallBeforeLast = "RemoveObsolete")
           => ta.assets = ta.before

\* RemoveObsolete has removed a hash and kept another, with a hash twice in
\* newAssets
C20_Witness ==
    /\ LastCall = "RemoveObsolete"
    /\ ta.assets.loaded # <<>>
    /\ ta.assets.loaded # ta.before.loaded
    /\ \E h \in AssetHashes : Occurrences(ta.assets.newAssets, h) = 2

\* The root hashes of the files of the directory of the last call, in the
\* order of their names
DirHashes ==
    LET names == SelectSeq(<<"kernel.efi-1.0-1-generic", "kernel.efi-1.0-12-generic">>,
                           LAMBDA k : Join(KernelSourceDir, k) \in DOMAIN ta.dir)
    IN  [i \in 1 .. Len(names) |-> RootHash(ta.dir[Join(KernelSourceDir, names[i])])]

\* C21: TrustNewFromDir appends the root hash of every file of the directory
\* to newAssets, and to loaded the hashes that were not in loaded, each once;
\* the hashes that were in loaded stay, in their order
C21_TrustNewFromDir ==
    LastCall = "TrustNewFromDir"
        => /\ ta.assets.newAssets = ta.before.newAssets \o DirHashes
           /\ ta.assets.loaded
                  = ta.before.loaded
                    \o KeepFirstFrom(SelectSeq(DirHashes, LAMBDA h : h \notin Elems(ta.before.loaded)), 1)
           /\ SubSeq(ta.assets.loaded, 1, Len(ta.before.loaded)) = ta.before.loaded

\* TrustNewFromDir over a directory of two files, the hash of the first in
\* loaded before the call and the hash of the second not
C21_Witness ==
    /\ LastCall = "TrustNewFromDir"
    /\ Len(DirHashes) = 2
    /\ ta.before.loaded # <<>>
    /\ DirHashes[1] \in Elems(ta.before.loaded)
    /\ DirHashes[2] \notin Elems(ta.before.loaded)
    /\ Len(ta.assets.loaded) = Len(ta.before.loaded) + 1

-----------------------------------------------------------------------------
(* Properties of the trusted assets of a run (SpecRun) *)

\* assets.Save() has just succeeded
JustSaved == log # <<>> /\ log[Len(log)] = Event("assets", "Save")

\* The hashes the trusted assets file held when the run started
OriginalHashes ==
    IF trustedAssetsPath \in DOMAIN pre.files THEN pre.files[trustedAssetsPath].hashes ELSE <<>>

\* The boot images of the file system: the shims and kernels of the source
\* directories and of the ESP
BootImages(fs) ==
    Elems(DirImages(fs, ShimSourceDir)) \cup Elems(DirImages(fs, KernelSourceDir))
    \cup Elems(EspImages(fs)) \cup ({RemovableShimPath} \cap DOMAIN fs)

\* h is the root hash of a boot image that is on the file system
RelevantHash(h) == \E p \in BootImages(files) : RootHash(files[p]) = h

\* loaded holds a hash from the file that is the hash of no boot image and
\* was not added in this run
StaleHashes == {h \in Elems(assets.loaded) : h \notin Elems(assets.newAssets) /\ ~RelevantHash(h)}

\* C22 as stated: after every Save of a run every hash in loaded is an
\* originally loaded hash that is the hash of a remaining boot image, or a
\* hash added as new during this run
C22_Original ==
    JustSaved =>
        \A h \in Elems(assets.loaded) :
            \/ h \in Elems(OriginalHashes) /\ RelevantHash(h)
            \/ h \in Elems(assets.newAssets)

\* C22: after every Save of a run the file holds loaded, and every hash in
\* loaded is an originally loaded hash or a hash added as new during this run;
\* the Save before the pre-install reseal keeps every originally loaded hash,
\* the hash of a remaining boot image or not; after the Save that follows the
\* cleanup every hash in loaded was added as new during this run
C22_SavedHashes ==
    JustSaved =>
        /\ trustedAssetsPath \in DOMAIN files
        /\ files[trustedAssetsPath].hashes = assets.loaded
        /\ \A h \in Elems(assets.loaded) :
               h \in Elems(OriginalHashes) \/ h \in Elems(assets.newAssets)
        /\ PositionsOf(log, "step", "SaveFinal") = {}
               => Elems(OriginalHashes) \subseteq Elems(assets.loaded)
        /\ PositionsOf(log, "step", "SaveFinal") # {}
               => Elems(assets.loaded) \subseteq Elems(assets.newAssets)

\* The Save before the pre-install reseal has written a hash that is the hash
\* of no boot image and was not added in this run
C22_Witness ==
    /\ JustSaved
    /\ PositionsOf(log, "step", "SaveFinal") = {}
    /\ StaleHashes # {}
    /\ StaleHashes \subseteq Elems(OriginalHashes)

-----------------------------------------------------------------------------
(* Properties of MaybeUpdateFile (SpecCopy) and WriteShimFallback (SpecCsv) *)

RECURSIVE RecordsUpTo(_, _)
RecordsUpTo(bootEntries, n) ==
    IF n = 0 THEN <<>> ELSE RecordsUpTo(bootEntries, n - 1) \o CsvRecord(bootEntries[n])

EntryHasComma(e) == \E f \in {e.Filename, e.Label, e.Options, e.Description} : "," \in Elems(f)

\* The entries WriteShimFallback gets to write: those before the first with a comma
CleanPrefixLen == 
    IF \E i \in 1 .. Len(lib.entries) : EntryHasComma(lib.entries[i])
    THEN (CHOOSE i \in 1 .. Len(lib.entries) :
              /\ EntryHasComma(lib.entries[i])
              /\ \A j \in 1 .. (i - 1) : ~EntryHasComma(lib.entries[j])) - 1
    ELSE Len(lib.entries)

\* C24: when the writer does not fail, WriteShimFallback writes, for the
\* entries in input order up to the first that has ',' in one of its four
\* fields, one record filename,label,options,description terminated by LF per
\* entry and nothing else, and returns an error if and only if there is such
\* an entry
C24_WriteShimFallback ==
    (lib.done /\ (lib.failAt = 0 \/ lib.failAt > CleanPrefixLen)) =>
        /\ lib.out = RecordsUpTo(lib.entries, CleanPrefixLen)
        /\ Cardinality({i \in 1 .. Len(lib.out) : lib.out[i] = "\n"}) = CleanPrefixLen
        /\ Cardinality({i \in 1 .. Len(lib.out) : lib.out[i] = ","}) = 3 * CleanPrefixLen
        /\ (lib.err # "nil") = (CleanPrefixLen < Len(lib.entries))
        /\ lib.err # "nil" => lib.err = "contains ','"

\* A call with two entries, the second with a comma in its last field: one
\* record is written and the call returns the error
C24_Witness ==
    /\ lib.done /\ lib.failAt = 0
    /\ Len(lib.entries) = 2
    /\ CleanPrefixLen = 1
    /\ "," \in Elems(lib.entries[2].Description)
    /\ lib.entries[1].Filename # <<>>
    /\ lib.err = "contains ','"
    /\ lib.out # <<>>

-----------------------------------------------------------------------------
(* Properties of the KernelManager, checked under SpecKm *)

KmDid(op) == pc = "km" /\ lib.op = op /\ ~lib.err

\* The kernels of the source directory of fs, newest Debian version first
SourceKernelsNewestFirst(fs) ==
    SelectSeq(<<"kernel.efi-1.0-12-generic", "kernel.efi-1.0-1-generic">>,
              LAMBDA k : Join(KernelSourceDir, k) \in DOMAIN fs)

\* Boot number n holds the boot entry of kernel k
IsEntryOfKernel(ents, n, k) ==
    /\ n \in DOMAIN ents
    /\ ents[n].Data = LoadOptionOf(KernelBootEntry(k))
    /\ ents[n].Attributes = EntryAttributes

\* C25: after a successful CommitToBootLoader of a KernelManager with a BootManager,
\* BootOrder (cached and stored) begins with the boot numbers of the entries of all
\* source kernels, newest Debian version first, followed by the numbers of the
\* previous order that still have an entry and are not among these, each once, in
\* their previous relative order.
C25_KernelsLeadBootOrder ==
    (loaded /\ KmDid("CommitToBootLoader")) =>
        LET src  == SourceKernelsNewestFirst(lib.before.files)
            head == SubSeq(bootOrder, 1, Len(src))
        IN  /\ Len(bootOrder) >= Len(src)
            /\ \A i \in 1 .. Len(src) : IsEntryOfKernel(entries, bootOrder[i], src[i])
            /\ SubSeq(bootOrder, Len(src) + 1, Len(bootOrder))
                   = KeepFirstFrom(SelectSeq(lib.before.bootOrder,
                                             LAMBDA n : n \in DOMAIN entries /\ n \notin Elems(head)), 1)
            /\ StoredBootOrder(efivars) = bootOrder

\* InstallKernels, then CommitToBootLoader, with a foreign Boot0001, the old order
\* [1, 2] and two new kernels: the order becomes [0, 2, 1]
C25_Witness ==
    /\ loaded /\ KmDid("CommitToBootLoader")
    /\ lib.ops = <<"InstallKernels", "CommitToBootLoader">>
    /\ Len(km.sourceKernels) = 2
    /\ lib.before.bootOrder = <<1, 2>>
    /\ DOMAIN lib.before.entries = {1}
    /\ bootOrder = <<0, 2, 1>>
    /\ IsEntryOfKernel(entries, 0, "kernel.efi-1.0-12-generic")
    /\ IsEntryOfKernel(entries, 2, "kernel.efi-1.0-1-generic")

\* The kernels of the target directory of fs that the source directory lacks / holds
ObsoleteKernels(fs) ==
    {k \in KernelNames : Join(TargetDir, k) \in DOMAIN fs /\ Join(KernelSourceDir, k) \notin DOMAIN fs}

CurrentKernels(fs) ==
    {k \in KernelNames : Join(TargetDir, k) \in DOMAIN fs /\ Join(KernelSourceDir, k) \in DOMAIN fs}

\* The boot numbers of ents whose device path is that of a file of names in the
\* target directory
EntriesOfKernelFiles(ents, names) ==
    {n \in DOMAIN ents : \E k \in names : /\ IsValidLoadOption(ents[n].Data)
                                            /\ ents[n].Data[4] = NewDevicePath(TargetDir, k)}

\* After a successful RemoveObsoleteKernels the obsolete kernel files are gone and
\* the other kernel files are as they were
KernelFilesCleaned ==
    KmDid("RemoveObsoleteKernels") =>
        /\ \A k \in ObsoleteKernels(lib.before.files) : Join(TargetDir, k) \notin DOMAIN files
        /\ \A k \in CurrentKernels(lib.before.files) :
               /\ Join(TargetDir, k) \in DOMAIN files
               /\ files[Join(TargetDir, k)] = lib.before.files[Join(TargetDir, k)]

\* The entries of the removed files are deleted from the BootManager and the store
KernelEntriesDeleted ==
    \A n \in EntriesOfKernelFiles(LoadEntries(lib.before.efivars), ObsoleteKernels(lib.before.files)) :
        /\ n \notin DOMAIN entries
        /\ BootVariableName(n) \notin DOMAIN efivars

\* The claim as stated: the entries are deleted whether or not the KernelManager
\* has a BootManager, and no deleted number is in the BootOrder of a later commit
C26_Original ==
    /\ KernelFilesCleaned
    /\ KmDid("RemoveObsoleteKernels") => KernelEntriesDeleted
    /\ KmDid("CommitToBootLoader") => \A n \in lib.gone : n \notin Elems(StoredBootOrder(efivars))

\* C26: after a successful RemoveObsoleteKernels every kernel file of the target
\* directory without a same-named source kernel is removed and the kernels present in
\* the source are kept; when the KernelManager has a BootManager, every Boot#### whose
\* device path names a removed file is deleted, and the BootOrder a later successful
\* CommitToBootLoader writes holds a deleted number only if FindOrCreateEntry has
\* given that number to the entry of a source kernel.
C26_ObsoleteKernelsRemoved ==
    /\ KernelFilesCleaned
    /\ (loaded /\ KmDid("RemoveObsoleteKernels")) => KernelEntriesDeleted
    /\ (loaded /\ KmDid("CommitToBootLoader")) =>
          /\ StoredBootOrder(efivars) = bootOrder
          /\ \A n \in lib.gone :
                 n \in Elems(bootOrder) =>
                     \E k \in Elems(km.sourceKernels) : IsEntryOfKernel(entries, n, k)

\* RemoveObsoleteKernels has removed a kernel file and deleted its entry, which the
\* BootOrder of the firmware named; the commit that follows writes an order without it
C26_Witness ==
    /\ loaded /\ KmDid("CommitToBootLoader")
    /\ lib.n >= 2 /\ lib.ops[lib.n - 1] = "RemoveObsoleteKernels"
    /\ \E k \in ObsoleteKernels(lib.first.files) : Join(TargetDir, k) \notin DOMAIN files
    /\ \E n \in lib.gone : /\ n \in Elems(StoredBootOrder(lib.first.efivars))
                            /\ n \notin Elems(StoredBootOrder(efivars))
                            /\ BootVariableName(n) \notin DOMAIN efivars

-----------------------------------------------------------------------------
(* Properties of DeleteEntry, checked under SpecStore *)

\* The store ev without the variable name
StoreWithout(ev, name) == [v \in DOMAIN ev \ {name} |-> ev[v]]

\* C27: DeleteEntry(n) never writes the BootOrder variable, whether it succeeds or
\* fails; when it succeeds its only write deletes Boot{n}, every other variable of the
\* store is as before, n has left the entry set with the other entries as before, and
\* the cached boot order is the previous one without n.
C27_DeleteEntryFrame ==
    last.op = "DeleteEntry" =>
        /\ \A i \in 1 .. Len(writes) : writes[i].name # "BootOrder"
        /\ StoredBootOrder(efivars) = StoredBootOrder(pre.efivars)
        /\ ~last.err =>
              /\ Len(writes) = 1
              /\ writes[1].name = BootVariableName(last.arg) /\ writes[1].data = <<>>
              /\ efivars = StoreWithout(pre.efivars, BootVariableName(last.arg))
              /\ DOMAIN entries = DOMAIN pre.entries \ {last.arg}
              /\ \A m \in DOMAIN entries : entries[m] = pre.entries[m]
              /\ bootOrder = SelectSeq(pre.bootOrder, LAMBDA m : m # last.arg)

\* A number that the order named is deleted: the cached order keeps another number,
\* and the BootOrder variable still holds the order as it was
C27_Witness ==
    /\ Did("DeleteEntry")
    /\ last.arg \in Elems(pre.bootOrder)
    /\ bootOrder # <<>>
    /\ StoredBootOrder(efivars) = pre.bootOrder
    /\ Cardinality(DOMAIN entries) >= 1

\* The Boot#### variable of the entry DeleteEntry was called for was not in the store
VanishedBefore == last.arg \in DOMAIN pre.entries /\ BootVariableName(last.arg) \notin DOMAIN pre.efivars

\* C28: DeleteEntry(n) returns an error when n is not in the entry set (a second
\* delete of n included) or when the variable Boot{n} is no longer in the store; the
\* entry set, the cached boot order and the store are then as before and nothing is
\* written.
C28_DeleteEntryErrors ==
    (last.op = "DeleteEntry" /\ (last.arg \notin DOMAIN pre.entries \/ VanishedBefore)) =>
        /\ last.err
        /\ entries = pre.entries
        /\ bootOrder = pre.bootOrder
        /\ efivars = pre.efivars
        /\ writes = <<>>

\* After a successful DeleteEntry of another number, DeleteEntry fails for an entry
\* whose variable has been deleted from the store behind the BootManager
C28_Witness ==
    /\ last.op = "DeleteEntry" /\ last.err /\ last.fail = "none"
    /\ VanishedBefore
    /\ last.arg \in DOMAIN entries
    /\ deleted # {}

-----------------------------------------------------------------------------
(* Exit status of nullbootctl, checked under SpecRun *)

\* The last step the run has started
LastStep ==
    LET steps == {i \in 1 .. Len(log) : log[i].kind = "step"}
    IN  log[CHOOSE i \in steps : \A j \in steps : j <= i].what

\* Writing the JSON dump of the mock variables failed
DumpFailed == \E i \in 1 .. Len(log) : log[i].kind = "dump" /\ log[i].what # "none"

\* C29 as claimed: a run in which every core step succeeds (and the JSON dump, if
\* any, is written) ends with exit status 0, with and without --output-json; a run
\* in which a core step fails ends with exit status 1 at that step.
C29_Original ==
    pc = "exited" =>
        IF exit.step = "DumpJSON"
        THEN ~DumpFailed => exit.code = 0
        ELSE exit.code = 1 /\ LastStep = exit.step

-----------------------------------------------------------------------------
(* Termination of the key retrieval of ResealKey, checked under SpecLink *)

\* C30 as claimed: for every arrangement of the links under /dev/disk/by-label and
\* /dev/disk/by-partuuid (chains, dangling links, cycles), the retrieval of the policy
\* auth key, and with it ResealKey, eventually returns, with success or an error.
C30_Original == <>(lib.at = "returned")

-----------------------------------------------------------------------------
(* A deleted boot number that is allocated again, checked under Spec *)

\* The step is a PrependAndSetBootOrder call with n in its head
HeadNames(n) == last'.op = "PrependAndSetBootOrder" /\ n \in Elems(last'.arg)

\* The step writes a BootOrder variable that holds n
WritesOrderWith(n) ==
    \E i \in 1 .. Len(writes') :
        writes'[i].name = "BootOrder" /\ n \in Elems(DecodeBootOrder(writes'[i].data))

\* C31: when FindOrCreateEntry allocates a number n that DeleteEntry has deleted, n is
\* not in the cached boot order; from then on, as long as no PrependAndSetBootOrder
\* call has n in its head, no step brings n into the cached boot order and no
\* BootOrder that is written holds n.
C31_RevivedStaysOut ==
    [][\A n \in BootNums :
          /\ (n \in revived' /\ n \notin revived) => n \notin Elems(bootOrder')
          /\ (n \in revived /\ n \in revived' /\ n \notin Elems(bootOrder) /\ ~HeadNames(n)) =>
                (n \notin Elems(bootOrder') /\ ~WritesOrderWith(n))]_vars

\* A number that the BootOrder of the firmware named was deleted and allocated again;
\* a PrependAndSetBootOrder without it in the head has written an order without it
C31_Witness ==
    /\ Did("PrependAndSetBootOrder")
    /\ \E n \in revived : /\ n \in DOMAIN entries
                          /\ n \notin Elems(last.arg)
                          /\ n \in Elems(StoredBootOrder(pre.efivars))
                          /\ n \notin Elems(StoredBootOrder(efivars))
    /\ StoredBootOrder(efivars) # <<>>

-----------------------------------------------------------------------------
(* The bytes ReadAt serves and the leaf hashes, checked under SpecImage *)

\* The byte at offset o of the file in the block content whose hash is the leaf
\* hash recorded for the block of o: -1 when no hash is recorded for that block
HashedByteAt(f, o) ==
    LET k == (o \div hashBlockSize) + 1
    IN  IF k \notin DOMAIN f.leafHashes \/ f.leafHashes[k] = <<>> THEN -1
        ELSE f.leafHashes[k][2][(o % hashBlockSize) + 1]

\* C32 (as the specification states it): every byte ReadAt hands to its caller
\* for a block is a byte of the block content whose hash is the leaf hash of that
\* block, the one Close folds into the root, whatever reads and file
\* modifications went before, a failed hash check of the block included.
C32_Original ==
    (image.last.op = "ReadAt" /\ image.last.err # "panic") =>
        \A k \in 1 .. image.last.n :
            image.last.data[k] = HashedByteAt(image.f, image.last.off + k - 1)

-----------------------------------------------------------------------------
(* Specification SpecOpen: the image files of one profile computation *)

MaxOpenCalls == 3

MaxCloseCalls == 3

\* The images the computation may open
OpenPaths == {"/foo", "/bar"}

\* trustedEFIImage.Open.  failure: the call that fails, appFs.Open or the Stat of
\* newEfiImageFile; the deferred function closes the file and takes the count
\* back when newEfiImageFile failed
trustedEFIImageOpen(ctx, disk, failure) ==
    IF failure = "Open" THEN [ctx |-> ctx, f |-> <<>>, err |-> TRUE]
    ELSE IF failure = "Stat"
    THEN [ctx |-> [ctx EXCEPT !.nOpen = (@ + 1) - 1], f |-> <<>>, err |-> TRUE]
    ELSE [ctx |-> [ctx EXCEPT !.nOpen = @ + 1], f |-> newEfiImageFile(disk), err |-> FALSE]

\* A fresh context, as ResealKey makes it, and no image opened yet
InitOpen ==
    /\ \E foo \in {<<1>>, <<1, 2, 3, 4>>}, trust \in BOOLEAN :
         lib = [fs      |-> [p \in OpenPaths |-> IF p = "/foo" THEN foo ELSE <<5, 6>>],
                assets  |-> IF trust THEN TrustHash(NewAssets, RootHash(foo)) ELSE NewAssets,
                ctx     |-> [nOpen |-> 0, failedPaths |-> <<>>],
                handles |-> <<>>,
                opens   |-> 0,
                closes  |-> 0,
                op      |-> "none",
                again   |-> FALSE]
    /\ pc = "open"
    /\ InitUnused

\* image.Open() of one of the images
OpenImage ==
    /\ pc = "open" /\ lib.opens < MaxOpenCalls
    /\ \E path \in OpenPaths, failure \in {"none", "Open", "Stat"} :
         \E r \in {trustedEFIImageOpen(lib.ctx, lib.fs[path], failure)} :
            lib' = [lib EXCEPT
                      !.ctx = r.ctx,
                      !.handles = IF r.err THEN @
                                  ELSE Append(@, [path |-> path, f |-> r.f, closed |-> FALSE]),
                      !.opens = @ + 1,
                      !.op = "Open",
                      !.again = FALSE]
    /\ UNCHANGED <<bmVars, flags, exit, files, assets, km, fileWrites, log, reseals, runs, image, call, ta>>
    /\ UNCHANGED pc

\* file.Close() of a file an Open returned, closed before or not.  Nothing can be
\* read from a file that is closed, and closing it again fails
CloseImage ==
    /\ pc = "open" /\ lib.closes < MaxCloseCalls
    /\ \E h \in DOMAIN lib.handles, closeErr \in {"nil", "EIO"} :
         \E r \in {Close(lib.handles[h].f,
                         IF lib.handles[h].closed THEN <<>> ELSE lib.fs[lib.handles[h].path],
                         lib.assets, lib.ctx, lib.handles[h].path,
                         IF lib.handles[h].closed THEN "ErrClosed" ELSE closeErr)} :
            lib' = [lib EXCEPT
                      !.ctx = r.ctx,
                      !.handles[h] = [@ EXCEPT !.f = r.f, !.closed = TRUE],
                      !.closes = @ + 1,
                      !.op = "Close",
                      !.again = lib.handles[h].closed]
    /\ UNCHANGED <<bmVars, flags, exit, files, assets, km, fileWrites, log, reseals, runs, image, call, ta>>
    /\ UNCHANGED pc

NextOpen ==
    \/ OpenImage
    \/ CloseImage

SpecOpen == InitOpen /\ [][NextOpen]_vars

-----------------------------------------------------------------------------
(* The count of open image files, checked under SpecOpen *)

\* The image files opened and not closed
OpenFiles == {h \in DOMAIN lib.handles : ~lib.handles[h].closed}

\* C33 (as the specification states it): context.nOpen is the number of image
\* files opened through trustedEFIImage.Open and not closed yet, whatever Open and
\* Close calls were made, a second Close of the same file included.
C33_Original == lib.ctx.nOpen = Cardinality(OpenFiles)

-----------------------------------------------------------------------------
(* Specification SpecLeaf: the leaf hashes of two files *)

\* The files compared: every sequence of the bytes 0 and 1 up to MaxFileLen
RECURSIVE FilesOfLen(_)
FilesOfLen(n) ==
    IF n = 0 THEN {<<>>}
    ELSE {Append(c, b) : c \in FilesOfLen(n - 1), b \in {0, 1}}

LeafFiles == UNION {FilesOfLen(n) : n \in 0 .. MaxFileLen}

InitLeaf ==
    /\ \E a \in LeafFiles, b \in LeafFiles :
         lib = [a |-> a, b |-> b, how |-> "none", leavesA |-> <<>>, leavesB |-> <<>>]
    /\ pc = "leaf"
    /\ InitUnused

\* Both files are opened and closed unread: Close hashes every block
HashOnClose ==
    /\ pc = "leaf" /\ lib.how = "none"
    /\ lib' = [lib EXCEPT
                 !.how = "Close",
                 !.leavesA = CloseLoop(newEfiImageFile(lib.a).leafHashes, lib.a, 1),
                 !.leavesB = CloseLoop(newEfiImageFile(lib.b).leafHashes, lib.b, 1)]
    /\ UNCHANGED <<bmVars, runVars, image, call, ta>>

\* Both files are opened, read from the start with a buffer of len bytes, and
\* closed: ReadAt hashes the blocks it reads, Close the others
HashOnRead ==
    /\ pc = "leaf" /\ lib.how = "none"
    /\ \E len \in 1 .. MaxReadLen :
         lib' = [lib EXCEPT
                   !.how = "ReadAt",
                   !.leavesA = CloseLoop(ReadAt(newEfiImageFile(lib.a), lib.a, len, 0).f.leafHashes, lib.a, 1),
                   !.leavesB = CloseLoop(ReadAt(newEfiImageFile(lib.b), lib.b, len, 0).f.leafHashes, lib.b, 1)]
    /\ UNCHANGED <<bmVars, runVars, image, call, ta>>

NextLeaf ==
    \/ HashOnClose
    \/ HashOnRead

SpecLeaf == InitLeaf /\ [][NextLeaf]_vars

-----------------------------------------------------------------------------
(* The leaf hashes as an image of the file content, checked under SpecLeaf *)

\* C34 (as the specification states it): the hash being injective, two files
\* have the same list of leaf hashes only if they are the same bytes; a file and
\* the file with zero bytes added inside its last block have different lists.
C34_Original ==
    (lib.how # "none" /\ lib.leavesA = lib.leavesB) => lib.a = lib.b

-----------------------------------------------------------------------------
(* A BootManager loaded from the store a BootManager wrote, checked under Spec *)

\* C35 (as the specification states it): after every successful
\* PrependAndSetBootOrder a BootManager loaded afresh from the same store loads
\* without error, with the boot order and the entry numbers of the writer's
\* cache, also when the order written is empty.
C35_Original ==
    Did("PrependAndSetBootOrder") =>
        /\ "BootOrder" \in DOMAIN efivars
        /\ DecodeBootOrder(efivars["BootOrder"].data) = bootOrder
        /\ DOMAIN LoadEntries(efivars) = DOMAIN entries

-----------------------------------------------------------------------------
(* FindOrCreateEntry for an entry that exists, checked under Spec *)

\* C36 (as the specification states it): FindOrCreateEntry for an entry that
\* exists already succeeds and returns the number of an existing entry with that
\* load option and those attributes, however many entries there are, also when
\* every number is in use and none is free.
C36_Original ==
    (last.op = "FindOrCreateEntry" /\ last.fail # "dp" /\ LastDuplicates # {}) =>
        (~last.err /\ last.ret \in LastDuplicates)

-----------------------------------------------------------------------------
(* The number FindOrCreateEntry returns as a function of its inputs, checked *)
(* under Spec                                                                *)

\* The numbers FindOrCreateEntry can return for the call last made, from the state
\* it was made in: one for each entry the iteration over the map may meet first
LastReturns ==
    {FindOrCreateEntryOp(pre.entries, pre.bootOrder, pre.efivars, last.arg, TargetDir, last.fail, pick).ret :
        pick \in PicksOf(pre.entries, last.arg, TargetDir)}

\* C37 (as the specification states it): the number FindOrCreateEntry returns is
\* a function of the BootManager state and the entry asked for: two calls made in
\* equal states for the same entry return the same number, also when several
\* entries have the same payload and the same attributes.
C37_Original ==
    last.op = "FindOrCreateEntry" => LastReturns = {last.ret}

-----------------------------------------------------------------------------
(* The entry map and the Boot#### variables of the store, checked under Spec *)

====
